---- MODULE Spec2Model ----
(***************************************************************************)
(* A model of the SnackScript compiler: the optimizer (src/src/optimizer.js)*)
(* over the core IR (src/src/core.js) and the scope handling of the         *)
(* analyzer (the analyzer text held in src/src/SnackScript.ohm, lines        *)
(* 694-1425).                                                                *)
(*                                                                           *)
(* IR values.  Every JavaScript value the optimizer can meet is a record     *)
(* with a "kind" field:                                                      *)
(*   Number   [kind, n, d]   the rational n/d (d >= 1, lowest terms);        *)
(*                           d = 0 encodes +Infinity (n = 1), -Infinity      *)
(*                           (n = -1) and NaN (n = 0).  The sign of a zero   *)
(*                           is not kept: -0 and 0 are one value, as they    *)
(*                           are for ===.                                    *)
(*   BigInt   [kind, n]      the wide integer n                              *)
(*   Boolean  [kind, b]                                                      *)
(*   String   [kind, s]                                                      *)
(*   Array    [kind, elements]  a JavaScript array (a statement list)        *)
(*   null     [kind]                                                         *)
(*   Throw    [kind, error]  the outcome "an exception was thrown"           *)
(* and the objects built by core.js keep their own kind and field names.     *)
(* An entity (Variable, Function) carries "ref", its object identity.        *)
(***************************************************************************)
EXTENDS Integers, Sequences, FiniteSets, TLC

VARIABLES
    pc,        \* position of the run: "start", then "optimized", "again" ...
    node,      \* the IR node handed to optimize
    result,    \* what optimize returned (or the Throw outcome)
    second,    \* what a second optimize pass over result returned
    env,       \* values of the variables, for evaluating expressions
    context,   \* analyzer: the chain of scopes, innermost last
    entities,  \* analyzer: the entity objects created so far; an entity's
               \*   identity is its index
    outcome,   \* analyzer: "analyzing", "returned", or the error thrown
    trace      \* analyzer: what the last statement's handlers checked and did

vars == <<pc, node, result, second, env, context, entities, outcome, trace>>

----------------------------------------------------------------------------
(* Host numbers                                                             *)

Abs(i) == IF i < 0 THEN -i ELSE i
Sgn(i) == IF i < 0 THEN -1 ELSE IF i = 0 THEN 0 ELSE 1

RECURSIVE Gcd(_, _)
Gcd(a, b) == IF b = 0 THEN a ELSE Gcd(b, a % b)

Num(i) == [kind |-> "Number", n |-> i, d |-> 1]
Big(i) == [kind |-> "BigInt", n |-> i]
Bool(v) == [kind |-> "Boolean", b |-> v]
Str(v) == [kind |-> "String", s |-> v]
Arr(l) == [kind |-> "Array", elements |-> l]
Null == [kind |-> "null"]
Throw(e) == [kind |-> "Throw", error |-> e]

NaN == [kind |-> "Number", n |-> 0, d |-> 0]
Infinity == [kind |-> "Number", n |-> 1, d |-> 0]

\* the Number n/d in lowest terms; a zero denominator keeps only the sign
Norm(n, d) ==
    IF d = 0 THEN [kind |-> "Number", n |-> Sgn(n), d |-> 0]
    ELSE LET g == Gcd(Abs(n), Abs(d))
         IN [kind |-> "Number", n |-> (Sgn(d) * n) \div g, d |-> Abs(d) \div g]

NumNeg(a) == [a EXCEPT !.n = -a.n]

NumAdd(a, b) ==
    IF a.d = 0 /\ b.d = 0 THEN (IF a.n = b.n THEN a ELSE NaN)
    ELSE IF a.d = 0 THEN a
    ELSE IF b.d = 0 THEN b
    ELSE Norm(a.n * b.d + b.n * a.d, a.d * b.d)

NumMul(a, b) == Norm(a.n * b.n, a.d * b.d)

NumRecip(b) ==
    IF b.n = 0 THEN (IF b.d = 0 THEN NaN ELSE Infinity)
    ELSE Norm(b.d * Sgn(b.n), Abs(b.n))

NumDiv(a, b) == NumMul(a, NumRecip(b))

RECURSIVE NumPowNat(_, _)
NumPowNat(a, k) == IF k = 0 THEN Num(1) ELSE NumMul(a, NumPowNat(a, k - 1))

IsNaN(a) == a.n = 0 /\ a.d = 0

\* a ** b where the host's result is a ratio, an infinity or NaN
HasPow(a, b) ==
    \/ b.d = 1
    \/ b.d = 0
    \/ a.d = 0
    \/ a.n <= 0
    \/ a.n = a.d

\* a ** b.  A power with a fractional exponent of a positive base other than
\* 1 is no ratio; such powers (~HasPow) are not drawn by the specifications.
NumPow(a, b) ==
    IF b.d = 1 THEN (IF b.n >= 0 THEN NumPowNat(a, b.n)
                     ELSE NumRecip(NumPowNat(a, -b.n)))
    ELSE IF IsNaN(a) \/ IsNaN(b) THEN NaN
    ELSE IF b.d = 0
         THEN (IF Abs(a.n) = a.d THEN NaN
               ELSE IF (Abs(a.n) > a.d \/ a.d = 0) = (b.n > 0) THEN Infinity
               ELSE Num(0))
    ELSE IF a.d = 0 THEN (IF b.n > 0 THEN Infinity ELSE Num(0))
    ELSE IF a.n < 0 THEN NaN
    ELSE IF a.n = 0 THEN (IF b.n > 0 THEN Num(0) ELSE Infinity)
    ELSE IF a.n = a.d THEN Num(1)
    ELSE NaN

NumLt(a, b) ==
    IF IsNaN(a) \/ IsNaN(b) THEN FALSE
    ELSE IF a.d = 0 /\ b.d = 0 THEN a.n < b.n
    ELSE a.n * b.d < b.n * a.d

NumEq(a, b) == ~IsNaN(a) /\ ~IsNaN(b) /\ a.n = b.n /\ a.d = b.d

\* BigInt division truncates toward zero
BigDiv(a, b) == Sgn(a) * Sgn(b) * (Abs(a) \div Abs(b))

RECURSIVE IntPow(_, _)
IntPow(a, k) == IF k = 0 THEN 1 ELSE a * IntPow(a, k - 1)

\* the Number with the mathematical value of a numeric literal
AsNum(x) == IF x.kind = "BigInt" THEN Num(x.n) ELSE x

----------------------------------------------------------------------------
(* Host operators on numeric literals, as the optimizer applies them        *)

IsNumeric(x) == x.kind \in {"Number", "BigInt"}
Thrown(x) == x.kind = "Throw"

\* arithmetic: Number with Number, BigInt with BigInt; mixing the two throws
JsAdd(a, b) ==
    IF a.kind # b.kind THEN Throw("TypeError")
    ELSE IF a.kind = "BigInt" THEN Big(a.n + b.n) ELSE NumAdd(a, b)

JsSub(a, b) ==
    IF a.kind # b.kind THEN Throw("TypeError")
    ELSE IF a.kind = "BigInt" THEN Big(a.n - b.n) ELSE NumAdd(a, NumNeg(b))

JsMul(a, b) ==
    IF a.kind # b.kind THEN Throw("TypeError")
    ELSE IF a.kind = "BigInt" THEN Big(a.n * b.n) ELSE NumMul(a, b)

JsDiv(a, b) ==
    IF a.kind # b.kind THEN Throw("TypeError")
    ELSE IF a.kind = "BigInt"
         THEN (IF b.n = 0 THEN Throw("RangeError") ELSE Big(BigDiv(a.n, b.n)))
         ELSE NumDiv(a, b)

JsPow(a, b) ==
    IF a.kind # b.kind THEN Throw("TypeError")
    ELSE IF a.kind = "BigInt"
         THEN (IF b.n < 0 THEN Throw("RangeError") ELSE Big(IntPow(a.n, b.n)))
         ELSE NumPow(a, b)

\* relational operators compare a Number and a BigInt by mathematical value
JsLt(a, b) == Bool(NumLt(AsNum(a), AsNum(b)))
JsLe(a, b) == Bool(NumLt(AsNum(a), AsNum(b)) \/ NumEq(AsNum(a), AsNum(b)))

\* a variant that compares as == does: across the two numeric kinds by value
JsLooseEq(a, b) == NumEq(AsNum(a), AsNum(b))

\* === : never true across the two numeric kinds, never true of NaN
JsStrictEq(a, b) ==
    IF a.kind # b.kind THEN FALSE
    ELSE IF a.kind = "BigInt" THEN a.n = b.n ELSE NumEq(a, b)

FoldOps == {"+", "-", "*", "/", "**", "<", "<=", "==", "!=", ">=", ">"}

\* optimizer.js lines 115-125: both operands are numeric constants
Fold(op, l, r) ==
    IF op = "+" THEN JsAdd(l, r)
    ELSE IF op = "-" THEN JsSub(l, r)
    ELSE IF op = "*" THEN JsMul(l, r)
    ELSE IF op = "/" THEN JsDiv(l, r)
    ELSE IF op = "**" THEN JsPow(l, r)
    ELSE IF op = "<" THEN JsLt(l, r)
    ELSE IF op = "<=" THEN JsLe(l, r)
    ELSE IF op = "==" THEN Bool(JsStrictEq(l, r))
    ELSE IF op = "!=" THEN Bool(~JsStrictEq(l, r))
    ELSE IF op = ">=" THEN JsLe(r, l)
    ELSE JsLt(r, l)

\* a variant that knows the ordinary zero only
isZeroOrdinary(n) == n.kind = "Number" /\ n.n = 0 /\ n.d = 1

isZero(n) == IsNumeric(n) /\ n.n = 0 /\ (n.kind = "BigInt" \/ n.d = 1)
isOne(n) == IsNumeric(n) /\ n.n = 1 /\ (n.kind = "BigInt" \/ n.d = 1)

----------------------------------------------------------------------------
(* core.js constructors                                                      *)

variable(name, ref) == [kind |-> "Variable", name |-> name, ref |-> ref]
program(statements) == [kind |-> "Program", statements |-> statements]
variableDeclaration(v, initializer) ==
    [kind |-> "VariableDeclaration", variable |-> v, initializer |-> initializer]
functionDeclaration(f) == [kind |-> "FunctionDeclaration", fun |-> f]
fun(name, ref, body) == [kind |-> "Function", name |-> name, ref |-> ref, body |-> body]
increment(v) == [kind |-> "Increment", variable |-> v]
decrement(v) == [kind |-> "Decrement", variable |-> v]
assignment(target, source) == [kind |-> "Assignment", target |-> target, source |-> source]
addAssignment(target, source) ==
    [kind |-> "AddAssignment", target |-> target, source |-> source]
breakStatement == [kind |-> "BreakStatement"]
returnStatement(expression) == [kind |-> "ReturnStatement", expression |-> expression]
ifStatement(test, consequent, alternate) ==
    [kind |-> "IfStatement", test |-> test, consequent |-> consequent,
     alternate |-> alternate]
whileStatement(test, body) == [kind |-> "WhileStatement", test |-> test, body |-> body]
forRangeStatement(iterator, low, op, high, body) ==
    [kind |-> "ForRangeStatement", iterator |-> iterator, low |-> low, op |-> op,
     high |-> high, body |-> body]
forStatement(iterator, collection, body) ==
    [kind |-> "ForStatement", iterator |-> iterator, collection |-> collection,
     body |-> body]
binary(op, left, right) ==
    [kind |-> "BinaryExpression", op |-> op, left |-> left, right |-> right]
unary(op, operand) == [kind |-> "UnaryExpression", op |-> op, operand |-> operand]
print(expressions) == [kind |-> "Print", expressions |-> expressions]
emptyArray == [kind |-> "EmptyArray"]
emptyOptional == [kind |-> "EmptyOptional"]
typeDeclaration(fields) == [kind |-> "TypeDeclaration", fields |-> fields]
arrayExpression(elements) == [kind |-> "ArrayExpression", elements |-> elements]
memberExpression(object, op, field) ==
    [kind |-> "MemberExpression", object |-> object, op |-> op, field |-> field]
functionCall(callee, args) == [kind |-> "FunctionCall", callee |-> callee, args |-> args]
constructorCall(callee, args) ==
    [kind |-> "ConstructorCall", callee |-> callee, args |-> args]

----------------------------------------------------------------------------
(* The optimizer                                                             *)

\* a variant that takes two entities of one name for one entity
EqualsByName(a, b) ==
    /\ a.kind = b.kind
    /\ a.kind \in {"Variable", "Function"}
    /\ a.name = b.name

\* a === b: primitives by value, entities by identity; two object nodes of a
\* tree are never the same object
StrictEquals(a, b) ==
    IF a.kind # b.kind THEN FALSE
    ELSE IF IsNumeric(a) THEN JsStrictEq(a, b)
    ELSE IF a.kind = "Boolean" THEN a.b = b.b
    ELSE IF a.kind = "String" THEN a.s = b.s
    ELSE IF a.kind \in {"Variable", "Function"} THEN a.ref = b.ref
    ELSE a.kind \in {"null", "BreakStatement"}

IsTrue(x) == x.kind = "Boolean" /\ x.b
IsFalse(x) == x.kind = "Boolean" /\ ~x.b

\* a variant that maps without flattening
SplicedWhole(r) == <<r>>

\* what flatMap splices for one callback result
Spliced(r) == IF r.kind = "Array" THEN r.elements ELSE <<r>>

RECURSIVE optimize(_)
RECURSIVE flatMapOptimize(_)
RECURSIVE mapOptimize(_)

\* list.flatMap(optimize): an Array, or the first Throw
flatMapOptimize(list) ==
    IF list = <<>> THEN Arr(<<>>)
    ELSE LET h == optimize(Head(list))
         IN IF Thrown(h) THEN h
            ELSE LET t == flatMapOptimize(Tail(list))
                 IN IF Thrown(t) THEN t ELSE Arr(Spliced(h) \o t.elements)

\* list.map(optimize): an Array, or the first Throw
mapOptimize(list) ==
    IF list = <<>> THEN Arr(<<>>)
    ELSE LET h == optimize(Head(list))
         IN IF Thrown(h) THEN h
            ELSE LET t == mapOptimize(Tail(list))
                 IN IF Thrown(t) THEN t ELSE Arr(<<h>> \o t.elements)

Program(p) ==
    LET r == flatMapOptimize(p.statements)
    IN IF Thrown(r) THEN r ELSE [p EXCEPT !.statements = r.elements]

VariableDeclaration(d) ==
    LET v == optimize(d.variable)
        i == optimize(d.initializer)
    IN IF Thrown(v) THEN v
       ELSE IF Thrown(i) THEN i
       ELSE [d EXCEPT !.variable = v, !.initializer = i]

FunctionDeclaration(d) ==
    LET f == optimize(d.fun)
    IN IF Thrown(f) THEN f ELSE [d EXCEPT !.fun = f]

Function(f) ==
    LET r == flatMapOptimize(f.body)
    IN IF Thrown(r) THEN r ELSE [f EXCEPT !.body = r.elements]

Increment(s) ==
    LET v == optimize(s.variable)
    IN IF Thrown(v) THEN v ELSE [s EXCEPT !.variable = v]

Decrement(s) ==
    LET v == optimize(s.variable)
    IN IF Thrown(v) THEN v ELSE [s EXCEPT !.variable = v]

Assignment(s) ==
    LET source == optimize(s.source)
        target == optimize(s.target)
    IN IF Thrown(source) THEN source
       ELSE IF Thrown(target) THEN target
       ELSE IF StrictEquals(source, target) THEN Arr(<<>>)
       ELSE [s EXCEPT !.source = source, !.target = target]

BreakStatement(s) == s

ReturnStatement(s) ==
    LET e == optimize(s.expression)
    IN IF Thrown(e) THEN e ELSE [s EXCEPT !.expression = e]

\* a variant that keeps the branch the test rules out
IfStatementOtherBranch(s) ==
    LET test == optimize(s.test)
        consequent == flatMapOptimize(s.consequent)
        alternate ==
            IF s.alternate.kind = "IfStatement" THEN optimize(s.alternate)
            ELSE IF s.alternate.kind = "Array" THEN flatMapOptimize(s.alternate.elements)
            ELSE Throw("TypeError")
    IN IF Thrown(test) THEN test
       ELSE IF Thrown(consequent) THEN consequent
       ELSE IF Thrown(alternate) THEN alternate
       ELSE IF test.kind = "Boolean"
            THEN (IF test.b THEN alternate ELSE consequent)
       ELSE [s EXCEPT !.test = test, !.consequent = consequent.elements,
                      !.alternate = alternate]

\* the alternate is an IfStatement node, an Array, or null (no else-block);
\* null.flatMap throws
IfStatement(s) ==
    LET test == optimize(s.test)
        consequent == flatMapOptimize(s.consequent)
        alternate ==
            IF s.alternate.kind = "IfStatement" THEN optimize(s.alternate)
            ELSE IF s.alternate.kind = "Array" THEN flatMapOptimize(s.alternate.elements)
            ELSE Throw("TypeError")
    IN IF Thrown(test) THEN test
       ELSE IF Thrown(consequent) THEN consequent
       ELSE IF Thrown(alternate) THEN alternate
       ELSE IF test.kind = "Boolean"
            THEN (IF test.b THEN consequent ELSE alternate)
       ELSE [s EXCEPT !.test = test, !.consequent = consequent.elements,
                      !.alternate = alternate]

\* a variant that drops the loop on any constant test
WhileStatementAnyConstant(s) ==
    LET test == optimize(s.test)
        body == flatMapOptimize(s.body)
    IN IF Thrown(test) THEN test
       ELSE IF test.kind = "Boolean" THEN Arr(<<>>)
       ELSE IF Thrown(body) THEN body
       ELSE [s EXCEPT !.test = test, !.body = body.elements]

WhileStatement(s) ==
    LET test == optimize(s.test)
        body == flatMapOptimize(s.body)
    IN IF Thrown(test) THEN test
       ELSE IF IsFalse(test) THEN Arr(<<>>)
       ELSE IF Thrown(body) THEN body
       ELSE [s EXCEPT !.test = test, !.body = body.elements]

\* no "return s": the handler returns undefined when the loop is kept, and
\* optimize then falls back to the node
ForRangeStatement(s) ==
    LET iterator == optimize(s.iterator)
        low == optimize(s.low)
        high == optimize(s.high)
        body == flatMapOptimize(s.body)
    IN IF Thrown(iterator) THEN iterator
       ELSE IF Thrown(low) THEN low
       ELSE IF Thrown(high) THEN high
       ELSE IF Thrown(body) THEN body
       ELSE IF low.kind = "Number" /\ high.kind = "Number" /\ NumLt(high, low)
            THEN Arr(<<>>)
       ELSE [s EXCEPT !.iterator = iterator, !.low = low, !.high = high,
                      !.body = body.elements]

ForStatement(s) ==
    LET iterator == optimize(s.iterator)
        collection == optimize(s.collection)
        body == flatMapOptimize(s.body)
    IN IF Thrown(iterator) THEN iterator
       ELSE IF Thrown(collection) THEN collection
       ELSE IF Thrown(body) THEN body
       ELSE IF collection.kind = "EmptyArray" THEN Arr(<<>>)
       ELSE [s EXCEPT !.iterator = iterator, !.collection = collection,
                      !.body = body.elements]

\* a variant that hands back the right operand as it stood before optimizing
LeftConstantStale(e, left, right) ==
    IF isZero(left) /\ e.op = "+" THEN e.right
    ELSE IF isOne(left) /\ e.op = "*" THEN e.right
    ELSE IF isZero(left) /\ e.op = "-" THEN unary("-", right)
    ELSE IF isOne(left) /\ e.op = "**" THEN left
    ELSE IF isZero(left) /\ e.op \in {"*", "/"} THEN left
    ELSE [e EXCEPT !.left = left, !.right = right]

\* lines 127-131: only the left operand is a numeric constant (or both are and
\* the operator is none of the folded ones)
LeftConstant(e, left, right) ==
    IF isZero(left) /\ e.op = "+" THEN right
    ELSE IF isOne(left) /\ e.op = "*" THEN right
    ELSE IF isZero(left) /\ e.op = "-" THEN unary("-", right)
    ELSE IF isOne(left) /\ e.op = "**" THEN left
    ELSE IF isZero(left) /\ e.op \in {"*", "/"} THEN left
    ELSE [e EXCEPT !.left = left, !.right = right]

\* lines 134-137: only the right operand is a numeric constant
RightConstant(e, left, right) ==
    IF e.op \in {"+", "-"} /\ isZero(right) THEN left
    ELSE IF e.op \in {"*", "/"} /\ isOne(right) THEN left
    ELSE IF e.op = "*" /\ isZero(right) THEN right
    ELSE IF e.op = "**" /\ isZero(right) THEN Num(1)
    ELSE [e EXCEPT !.left = left, !.right = right]

BinaryExpression(e) ==
    LET left == optimize(e.left)
        right == optimize(e.right)
        kept == [e EXCEPT !.left = left, !.right = right]
    IN IF Thrown(left) THEN left
       ELSE IF Thrown(right) THEN right
       ELSE IF e.op = "??"
            THEN (IF left.kind = "EmptyOptional" THEN right ELSE kept)
       ELSE IF e.op = "&&"
            THEN (IF IsTrue(left) THEN right
                  ELSE IF IsTrue(right) THEN left ELSE kept)
       ELSE IF e.op = "||"
            THEN (IF IsFalse(left) THEN right
                  ELSE IF IsFalse(right) THEN left ELSE kept)
       ELSE IF IsNumeric(left)
            THEN (IF IsNumeric(right) /\ e.op \in FoldOps
                  THEN Fold(e.op, left, right)
                  ELSE LeftConstant(e, left, right))
       ELSE IF IsNumeric(right) THEN RightConstant(e, left, right)
       ELSE kept

UnaryExpression(e) ==
    LET operand == optimize(e.operand)
    IN IF Thrown(operand) THEN operand
       ELSE IF operand.kind = "Number" /\ e.op = "-" THEN NumNeg(operand)
       ELSE [e EXCEPT !.operand = operand]

ArrayExpression(e) ==
    LET r == mapOptimize(e.elements)
    IN IF Thrown(r) THEN r ELSE [e EXCEPT !.elements = r.elements]

MemberExpression(e) ==
    LET o == optimize(e.object)
    IN IF Thrown(o) THEN o ELSE [e EXCEPT !.object = o]

FunctionCall(c) ==
    LET callee == optimize(c.callee)
        args == mapOptimize(c.args)
    IN IF Thrown(callee) THEN callee
       ELSE IF Thrown(args) THEN args
       ELSE [c EXCEPT !.callee = callee, !.args = args.elements]

ConstructorCall(c) ==
    LET callee == optimize(c.callee)
        args == mapOptimize(c.args)
    IN IF Thrown(callee) THEN callee
       ELSE IF Thrown(args) THEN args
       ELSE [c EXCEPT !.callee = callee, !.args = args.elements]

PrintStatement(s) ==
    LET r == mapOptimize(s.expressions)
    IN IF Thrown(r) THEN r ELSE [s EXCEPT !.expressions = r.elements]

\* a variant without the "?? node" fallback: calling the missing rule throws
UnregisteredThrows(n) == Throw("TypeError")

\* "?? node": a kind with no rule, and a raw value, come back as they are
Unregistered(n) == n

\* optimizers?.[node.kind]?.(node) ?? node
optimize(n) ==
    CASE n.kind = "Program" -> Program(n)
      [] n.kind = "VariableDeclaration" -> VariableDeclaration(n)
      [] n.kind = "FunctionDeclaration" -> FunctionDeclaration(n)
      [] n.kind = "Function" -> Function(n)
      [] n.kind = "Increment" -> Increment(n)
      [] n.kind = "Decrement" -> Decrement(n)
      [] n.kind = "Assignment" -> Assignment(n)
      [] n.kind = "BreakStatement" -> BreakStatement(n)
      [] n.kind = "ReturnStatement" -> ReturnStatement(n)
      [] n.kind = "IfStatement" -> IfStatement(n)
      [] n.kind = "WhileStatement" -> WhileStatement(n)
      [] n.kind = "ForRangeStatement" -> ForRangeStatement(n)
      [] n.kind = "ForStatement" -> ForStatement(n)
      [] n.kind = "BinaryExpression" -> BinaryExpression(n)
      [] n.kind = "UnaryExpression" -> UnaryExpression(n)
      [] n.kind = "ArrayExpression" -> ArrayExpression(n)
      [] n.kind = "MemberExpression" -> MemberExpression(n)
      [] n.kind = "FunctionCall" -> FunctionCall(n)
      [] n.kind = "ConstructorCall" -> ConstructorCall(n)
      [] n.kind = "Print" -> PrintStatement(n)
      [] OTHER -> Unregistered(n)

----------------------------------------------------------------------------
(* Runs of the optimizer.  A run starts with the node to optimize, applies   *)
(* optimize once and, when that returned, a second time to what it returned. *)

MaxLit == 2

NumberLiterals == {Num(i) : i \in -MaxLit..MaxLit}
BigIntLiterals == {Big(i) : i \in -MaxLit..MaxLit}
NumericLiterals == NumberLiterals \cup BigIntLiterals

\* the analyzer's variables, at rest during a run of the optimizer
AnalyzerIdle ==
    context = <<>> /\ entities = <<>> /\ outcome = "idle" /\ trace = <<>>

Optimize ==
    /\ pc = "start"
    /\ result' = optimize(node)
    /\ pc' = "optimized"
    /\ UNCHANGED <<node, second, env, context, entities, outcome, trace>>

\* the second pass exists only when the first returned
Reoptimize ==
    /\ pc = "optimized"
    /\ ~Thrown(result)
    /\ second' = optimize(result)
    /\ pc' = "again"
    /\ UNCHANGED <<node, result, env, context, entities, outcome, trace>>

NextOptimizer == Optimize \/ Reoptimize

\* constant folding: one operator over two numeric literals
InitFold ==
    /\ pc = "start"
    /\ node \in {binary(op, a, b) : op \in FoldOps, a \in NumericLiterals,
                                    b \in NumericLiterals}
    /\ result = Null
    /\ second = Null
    /\ env = <<>>
    /\ AnalyzerIdle

SpecFold == InitFold /\ [][NextOptimizer]_vars

----------------------------------------------------------------------------
(* C1: constant folding                                                      *)

\* r is the Number literal with the value n/d (d # 0)
IsRatio(r, n, d) ==
    /\ r.kind = "Number"
    /\ r.d >= 1
    /\ r.n * d = n * r.d
    /\ Gcd(Abs(r.n), r.d) = 1

\* r is the literal of kind k with the integer value v
IsInteger(r, k, v) == r.kind = k /\ r.n = v /\ (k = "Number" => r.d = 1)

\* r is the BigInt quotient of va by vb (vb # 0), truncated toward zero
IsTruncated(r, va, vb) ==
    /\ r.kind = "BigInt"
    /\ Abs(r.n) * Abs(vb) <= Abs(va)
    /\ Abs(va) < (Abs(r.n) + 1) * Abs(vb)
    /\ (r.n # 0 => Sgn(r.n) = Sgn(va) * Sgn(vb))

\* r is the literal that op yields on two literals of one kind k with the
\* integer values va and vb, where the host defines one
SameKindValue(op, k, va, vb, r) ==
    CASE op = "+" -> IsInteger(r, k, va + vb)
      [] op = "-" -> IsInteger(r, k, va - vb)
      [] op = "*" -> IsInteger(r, k, va * vb)
      [] op = "/" ->
            IF k = "BigInt" THEN vb # 0 /\ IsTruncated(r, va, vb)
            ELSE IF vb # 0 THEN IsRatio(r, va, vb)
            ELSE r.kind = "Number" /\ r.d = 0 /\ r.n = Sgn(va)
      [] op = "**" ->
            IF vb >= 0 THEN IsInteger(r, k, IntPow(va, vb))
            ELSE IF k = "BigInt" THEN FALSE
            ELSE IF va # 0 THEN IsRatio(r, 1, IntPow(va, -vb))
            ELSE r = Infinity
      [] op = "<" -> r = Bool(va < vb)
      [] op = "<=" -> r = Bool(va <= vb)
      [] op = "==" -> r = Bool(va = vb)
      [] op = "!=" -> r = Bool(va # vb)
      [] op = ">=" -> r = Bool(va >= vb)
      [] op = ">" -> r = Bool(va > vb)

Folded == pc = "optimized" /\ node.kind = "BinaryExpression"
             /\ IsNumeric(node.left) /\ IsNumeric(node.right)

\* the pairs on which the host operator has no value: arithmetic on a Number
\* and a BigInt, a BigInt division by zero, a BigInt power with a negative
\* exponent
HostThrows(op, a, b) ==
    \/ a.kind # b.kind /\ op \in {"+", "-", "*", "/", "**"}
    \/ a.kind = "BigInt" /\ b.kind = "BigInt" /\ op = "/" /\ b.n = 0
    \/ a.kind = "BigInt" /\ b.kind = "BigInt" /\ op = "**" /\ b.n < 0

\* C1 as claimed: for every pair of numeric literals and every folded
\* operator, optimize returns the literal with the value of the operator
\* applied to the two values (== and != comparing values), and never a
\* BinaryExpression node.
C1_EveryPairFolds ==
    Folded =>
        /\ ~Thrown(result)
        /\ result.kind # "BinaryExpression"
        /\ SameKindValue(node.op, result.kind, node.left.n, node.right.n, result)

\* C1 as amended: two Numbers, or two BigInts where the host operator has a
\* value, fold to the literal of that kind with the operator's value; a Number
\* paired with a BigInt folds under < <= >= > to the comparison of the values,
\* under == to false and under != to true; where the host operator throws
\* (Number with BigInt arithmetic: TypeError; BigInt / 0n and BigInt ** negative:
\* RangeError) optimize throws the same error.  No case returns a
\* BinaryExpression node.
C1_Fold ==
    Folded =>
        LET op == node.op
            a == node.left
            b == node.right
        IN /\ result.kind # "BinaryExpression"
           /\ IF HostThrows(op, a, b)
              THEN result = Throw(IF a.kind # b.kind THEN "TypeError" ELSE "RangeError")
              ELSE IF a.kind = b.kind
                   THEN SameKindValue(op, a.kind, a.n, b.n, result)
              ELSE IF op = "==" THEN result = Bool(FALSE)
              ELSE IF op = "!=" THEN result = Bool(TRUE)
              ELSE SameKindValue(op, "Number", a.n, b.n, result)

\* a quotient that is no integer was folded to a Number literal
C1_Witness ==
    /\ Folded
    /\ node.op = "/"
    /\ node.left = Num(1)
    /\ node.right = Num(2)
    /\ result.kind = "Number"
    /\ result.d = 2

----------------------------------------------------------------------------
(* C2: the optimized expression against the original                         *)

\* a op b in the host, for numeric a and b: a value or a Throw
HostApply(op, a, b) ==
    CASE op = "+" -> JsAdd(a, b)
      [] op = "-" -> JsSub(a, b)
      [] op = "*" -> JsMul(a, b)
      [] op = "/" -> JsDiv(a, b)
      [] op = "**" -> JsPow(a, b)

\* the value of an arithmetic expression when run with the variables bound
\* as in e: the literal it yields, or the Throw it ends with
RECURSIVE Eval(_, _)
Eval(x, e) ==
    CASE IsNumeric(x) -> x
      [] x.kind = "Variable" -> e[x.ref]
      [] x.kind = "UnaryExpression" ->
            LET v == Eval(x.operand, e)
            IN IF Thrown(v) THEN v
               ELSE IF v.kind = "BigInt" THEN Big(-v.n) ELSE NumNeg(v)
      [] x.kind = "BinaryExpression" ->
            LET l == Eval(x.left, e)
                r == Eval(x.right, e)
            IN IF Thrown(l) THEN l
               ELSE IF Thrown(r) THEN r
               ELSE HostApply(x.op, l, r)

\* every ** of the expression meets, when run, operands whose power this
\* model's Numbers hold
RECURSIVE Representable(_, _)
Representable(x, e) ==
    IF x.kind = "UnaryExpression" THEN Representable(x.operand, e)
    ELSE IF x.kind = "BinaryExpression"
         THEN /\ Representable(x.left, e)
              /\ Representable(x.right, e)
              /\ (x.op = "**" =>
                    LET l == Eval(x.left, e)
                        r == Eval(x.right, e)
                    IN (l.kind = "Number" /\ r.kind = "Number") => HasPow(l, r))
    ELSE TRUE

MaxVal == 1

ArithmeticOps == {"+", "-", "*", "/", "**"}

Lit(k, i) == IF k = "BigInt" THEN Big(i) ELSE Num(i)

varX == variable("x", 1)
varY == variable("y", 2)

\* integer literals of one numeric kind, and the variable x
ArithAtoms(k) == {Lit(k, i) : i \in 0..MaxLit} \cup {varX}

ArithDepth1(k) ==
    ArithAtoms(k) \cup
    {binary(op, a, b) : op \in ArithmeticOps, a \in ArithAtoms(k), b \in ArithAtoms(k)}

ArithDepth2(k) ==
    ArithDepth1(k) \cup
    {binary(op, a, b) : op \in ArithmeticOps, a \in ArithDepth1(k), b \in ArithAtoms(k)}
    \cup
    {binary(op, a, b) : op \in ArithmeticOps, a \in ArithAtoms(k), b \in ArithDepth1(k)}

InitExpr ==
    /\ pc = "start"
    /\ \E k \in {"Number", "BigInt"} :
          /\ node \in ArithDepth2(k)
          /\ env \in {<<Lit(k, v)>> : v \in -MaxVal..MaxVal}
    /\ Representable(node, env)
    /\ result = Null
    /\ second = Null
    /\ AnalyzerIdle

SpecExpr == InitExpr /\ [][NextOptimizer]_vars

\* what running the optimized expression yields; a throw of the optimizer
\* itself counts as that error
OptimizedOutcome == IF Thrown(result) THEN result ELSE Eval(result, env)

\* C2: for every expression over integer literals, variables and + - * / **,
\* and every integer value of the variables, the optimized expression yields
\* the same value, or the same error, as the original.
C2_SameOutcome == pc = "optimized" => OptimizedOutcome = Eval(node, env)

----------------------------------------------------------------------------
(* Runs of the optimizer over IR nodes of every kind.  The analyzer builds   *)
(* Number literals only (numeral: Number(sourceString)), so these nodes hold *)
(* Number literals; BigInt literals are drawn by SpecFold and SpecExpr.      *)

MaxLen == 2
MaxStatements == 3

\* the sequences over S of length at most k
SeqsUpTo(S, k) == UNION {[1..m -> S] : m \in 0..k}

varX2 == variable("x", 3)
funF == fun("f", 4, <<>>)

ExprAtoms ==
    {Num(i) : i \in 0..MaxLit} \cup {Bool(TRUE), Bool(FALSE), varX, emptyOptional}

SmallAtoms == {Num(0), Num(1), Bool(TRUE), Bool(FALSE), varX}

IROps == FoldOps \cup {"&&", "||", "??", "%"}

OuterOps == {"+", "-", "*", "**", "&&", "||"}

ExprDepth1 ==
    ExprAtoms
    \cup {binary(op, a, b) : op \in IROps, a \in ExprAtoms, b \in ExprAtoms}
    \cup {unary(op, a) : op \in {"-", "not"}, a \in ExprAtoms}

InnerExprs ==
    {binary(op, a, b) : op \in IROps, a \in SmallAtoms, b \in SmallAtoms}
    \cup {unary("-", a) : a \in SmallAtoms}

ExprDepth2 ==
    {binary(op, a, b) : op \in OuterOps, a \in InnerExprs, b \in SmallAtoms}
    \cup {binary(op, a, b) : op \in OuterOps, a \in SmallAtoms, b \in InnerExprs}
    \cup {unary("-", a) : a \in InnerExprs}

Tests ==
    {Bool(TRUE), Bool(FALSE), varX, binary("==", Num(1), Num(1)),
     binary("<", Num(2), Num(1)), binary("<", varX, Num(1))}

Sources ==
    {varX, varY, varX2, Num(1), binary("+", varX, Num(0)),
     binary("*", Num(1), varY), binary("+", Num(1), Num(1))}

SimpleStatements ==
    {assignment(t, s) : t \in {varX, varY}, s \in Sources}
    \cup {addAssignment(varX, s) : s \in Sources}
    \cup {variableDeclaration(varY, s) : s \in Sources}
    \cup {returnStatement(s) : s \in Sources}
    \cup {print(<<s, t>>) : s \in Sources, t \in {varX, Num(2)}}
    \cup {increment(varX), decrement(varY), breakStatement}

BodyStatements ==
    {assignment(varX, varX), assignment(varX, varY), increment(varX),
     print(<<binary("+", Num(1), Num(1))>>)}

Bodies(k) == SeqsUpTo(BodyStatements, k)

\* the bodies of an else-if chain: one statement at most
ShortBodies == {<<>>} \cup {<<s>> : s \in BodyStatements}

ElseIfs == {ifStatement(t, c, Arr(a)) : t \in Tests, c \in ShortBodies, a \in ShortBodies}

IfStatements(k) ==
    {ifStatement(t, c, Arr(a)) : t \in Tests, c \in Bodies(k), a \in Bodies(k)}
    \cup {ifStatement(t, c, a) : t \in Tests, c \in ShortBodies, a \in ElseIfs}
    \cup {ifStatement(t, c, Null) : t \in Tests, c \in Bodies(k)}

WhileStatements(k) == {whileStatement(t, b) : t \in Tests, b \in Bodies(k)}

Bounds == {Num(i) : i \in 0..MaxLit} \cup {varY, binary("+", Num(1), Num(1))}

ForRangeStatements ==
    {forRangeStatement(varX, l, op, h, b) :
        l \in Bounds, op \in {"...", "..<"}, h \in Bounds, b \in ShortBodies}

ForStatements(k) ==
    {forStatement(varX, c, b) :
        c \in {emptyArray, varY, arrayExpression(<<Num(1)>>)}, b \in Bodies(k)}

ProgramStatements ==
    BodyStatements
    \cup {assignment(varX, binary("+", varX, Num(0))), assignment(varX, varX2),
          addAssignment(varX, varX), breakStatement,
          whileStatement(Bool(FALSE), <<increment(varX)>>),
          whileStatement(binary("<", Num(2), Num(1)), <<decrement(varY)>>),
          whileStatement(varX, <<assignment(varX, varX)>>),
          ifStatement(binary("==", Num(1), Num(1)), <<decrement(varY)>>,
                      Arr(<<increment(varX)>>))}

Programs(k) == {program(l) : l \in SeqsUpTo(ProgramStatements, k)}

Others(k) ==
    {functionDeclaration(fun("f", 4, b)) : b \in Bodies(k)}
    \cup {functionCall(funF, <<s>>) : s \in Sources}
    \cup {constructorCall(funF, <<s, t>>) : s \in Sources, t \in Sources}
    \cup {arrayExpression(<<s, t>>) : s \in Sources, t \in Sources}
    \cup {memberExpression(s, ".", "f") : s \in Sources}
    \cup {typeDeclaration(<<>>), typeDeclaration(<<"f">>), emptyArray, emptyOptional,
          Str("z"), varY, funF}

\* the nodes with bodies of k statements and programs of m statements at most
IRNodes(k, m) ==
    ExprDepth1 \cup ExprDepth2 \cup SimpleStatements \cup IfStatements(k)
    \cup WhileStatements(k) \cup ForRangeStatements \cup ForStatements(k)
    \cup Programs(m) \cup Others(k)

InitIR ==
    /\ pc = "start"
    /\ node \in IRNodes(MaxLen, MaxStatements)
    /\ result = Null
    /\ second = Null
    /\ env = <<>>
    /\ AnalyzerIdle

SpecIR == InitIR /\ [][NextOptimizer]_vars

----------------------------------------------------------------------------
(* C3: idempotence                                                           *)

\* C3: for every IR node n, optimize(optimize(n)) equals optimize(n): the
\* second pass returns what it was given.
C3_Idempotent == pc = "again" => second = result

\* a second pass ran over a result that the first pass had rewritten
C3_Witness ==
    /\ pc = "again"
    /\ node = binary("+", Num(0), binary("+", varX, Num(0)))
    /\ result = varX
    /\ second = varX

----------------------------------------------------------------------------
(* C4: dead-branch elimination                                               *)

\* an if whose alternate is a statement list and whose test is, once
\* optimized, a Boolean literal
ConstantIf ==
    /\ pc = "optimized"
    /\ node.kind = "IfStatement"
    /\ node.alternate.kind = "Array"
    /\ optimize(node.test).kind = "Boolean"

\* the statements of list l that are no statement of list k
Foreign(l, k) == {l[i] : i \in 1..Len(l)} \ {k[i] : i \in 1..Len(k)}

\* C4: optimize(IfStatement(true, C, A)) is the optimized C and
\* optimize(IfStatement(false, C, A)) the optimized A, also when the test is a
\* Boolean only after folding; no statement of the untaken branch is in it.
C4_DeadBranch ==
    ConstantIf =>
        LET taken == IF optimize(node.test).b THEN node.consequent
                     ELSE node.alternate.elements
            untaken == IF optimize(node.test).b THEN node.alternate.elements
                       ELSE node.consequent
        IN /\ result = flatMapOptimize(taken)
           /\ \A s \in Foreign(flatMapOptimize(untaken).elements,
                               flatMapOptimize(taken).elements) :
                 \A i \in 1..Len(result.elements) : result.elements[i] # s

\* an if whose test folds to true only by folding, with both branches in use
C4_Witness ==
    /\ ConstantIf
    /\ node.test = binary("==", Num(1), Num(1))
    /\ node.consequent = <<increment(varX)>>
    /\ node.alternate = Arr(<<assignment(varX, varY)>>)
    /\ result = Arr(<<increment(varX)>>)

----------------------------------------------------------------------------
(* C5: self-assignment elimination                                           *)

\* the assignment's two sides are, once optimized, one and the same entity
SelfAssignment(s) ==
    /\ s.kind = "Assignment"
    /\ optimize(s.source).kind = "Variable"
    /\ optimize(s.target).kind = "Variable"
    /\ optimize(s.source).ref = optimize(s.target).ref

\* the statements that can only be rewritten in place: no rule deletes them
KeptKinds ==
    {"Assignment", "AddAssignment", "Increment", "Decrement", "Print",
     "BreakStatement", "ReturnStatement", "VariableDeclaration"}

\* list l without its self-assignments, the others optimized
RECURSIVE WithoutSelfAssignments(_)
WithoutSelfAssignments(l) ==
    IF l = <<>> THEN <<>>
    ELSE (IF SelfAssignment(Head(l)) THEN <<>> ELSE Spliced(optimize(Head(l))))
         \o WithoutSelfAssignments(Tail(l))

RECURSIVE CountKept(_)
CountKept(l) ==
    IF l = <<>> THEN 0
    ELSE (IF SelfAssignment(Head(l)) THEN 0 ELSE 1) + CountKept(Tail(l))

OptimizedProgram == pc = "optimized" /\ node.kind = "Program"

\* C5: optimizing a Program removes every Assignment whose optimized source
\* is the identical entity as its optimized target, wherever it stands, and
\* keeps every Assignment between two distinct entities; of the statements no
\* rule deletes, none other is removed.
C5_SelfAssignment ==
    OptimizedProgram =>
        /\ result.kind = "Program"
        /\ result.statements = WithoutSelfAssignments(node.statements)
        /\ \A i \in 1..Len(result.statements) : ~SelfAssignment(result.statements[i])
        /\ (\A i \in 1..Len(node.statements) : node.statements[i].kind \in KeptKinds)
              => Len(result.statements) = CountKept(node.statements)

\* x = x + 0 removed in the middle, the same-named other entity kept
C5_Witness ==
    /\ OptimizedProgram
    /\ node.statements = <<increment(varX), assignment(varX, binary("+", varX, Num(0))),
                           assignment(varX, varX2)>>
    /\ result.statements = <<increment(varX), assignment(varX, varX2)>>

----------------------------------------------------------------------------
(* C6: loop elimination                                                      *)

\* C6: optimize(WhileStatement(test, Body)) is the empty list whenever test
\* optimizes to false, and then nothing of Body is in the enclosing optimized
\* Program; otherwise it is the same node with its test and body optimized.
C6_WhileFalse ==
    /\ (pc = "optimized" /\ node.kind = "WhileStatement") =>
          IF IsFalse(optimize(node.test)) THEN result = Arr(<<>>)
          ELSE result = [node EXCEPT !.test = optimize(node.test),
                                     !.body = flatMapOptimize(node.body).elements]
    /\ OptimizedProgram =>
          \A i \in 1..Len(node.statements) :
             LET s == node.statements[i]
             IN (s.kind = "WhileStatement" /\ IsFalse(optimize(s.test))) =>
                   result.statements =
                      flatMapOptimize(SubSeq(node.statements, 1, i - 1)).elements
                      \o flatMapOptimize(SubSeq(node.statements, i + 1,
                                                Len(node.statements))).elements

\* a loop whose test is false only after folding vanished from a Program
C6_Witness ==
    /\ OptimizedProgram
    /\ node.statements = <<increment(varX),
                           whileStatement(binary("<", Num(2), Num(1)), <<decrement(varY)>>)>>
    /\ result.statements = <<increment(varX)>>

----------------------------------------------------------------------------
(* C7: kinds without a rule                                                  *)

RegisteredKinds ==
    {"Program", "VariableDeclaration", "FunctionDeclaration", "Function",
     "Increment", "Decrement", "Assignment", "BreakStatement", "ReturnStatement",
     "IfStatement", "WhileStatement", "ForRangeStatement", "ForStatement",
     "BinaryExpression", "UnaryExpression", "ArrayExpression", "MemberExpression",
     "FunctionCall", "ConstructorCall", "Print"}

\* C7: a node whose kind has no rule, and a raw literal value, is returned as
\* it is, no field changed; so is a BreakStatement.
C7_Passthrough ==
    (pc = "optimized" /\ (node.kind \notin RegisteredKinds \/ node.kind = "BreakStatement"))
        => result = node

\* an AddAssignment came back with its foldable source untouched
C7_Witness ==
    /\ pc = "optimized"
    /\ node = addAssignment(varX, binary("+", Num(1), Num(1)))
    /\ result = node

----------------------------------------------------------------------------
(* The analyzer's scopes.  A Context is one element of the chain "context",  *)
(* the root first and the current context last; its parent is the element    *)
(* before it.  locals maps a name to the entity bound to it, 0 for none.     *)
(* Besides the fields the code keeps, an element records the Block it was    *)
(* opened for ("block"): the body of a "function", the body of a "loop", the  *)
(* Block of an "if" or an else-if (else-if and else parts may follow it), or  *)
(* the "block" of an else.                                                    *)
(* A type is a record with a "kind" field.                                    *)

MaxDepth == 1
MaxNesting == 3
MaxEntities == 2
MaxParams == 1

Names == {"x", "y", "print"}

\* the names a program can bind: print is bound in the root already
UserNames == Names \ {"print"}

\* core.js lines 14-18: intType and floatType are one string
booleanType == [kind |-> "boolean"]
intType == [kind |-> "int"]
floatType == intType
stringType == [kind |-> "string"]
voidType == [kind |-> "void"]
anyType == [kind |-> "any"]
arrayType(baseType) == [kind |-> "ArrayType", baseType |-> baseType]
functionType(paramTypes, returnType) ==
    [kind |-> "FunctionType", paramTypes |-> paramTypes, returnType |-> returnType]
anyToVoidType == functionType(<<anyType>>, voidType)

\* an entity object: a Variable or a Function, with its name and type
entity(kind, name, type) == [kind |-> kind, name |-> name, type |-> type]
intrinsicFunction(name, type) == entity("Function", name, type)

\* the names the root context starts with; print stands for them all
standardLibrary == <<intrinsicFunction("print", anyToVoidType)>>

NoLocals == [n \in Names |-> 0]

\* Context.root()
root ==
    <<[locals |-> [n \in Names |->
                     IF \E i \in DOMAIN standardLibrary : standardLibrary[i].name = n
                     THEN CHOOSE i \in DOMAIN standardLibrary : standardLibrary[i].name = n
                     ELSE 0],
       inLoop |-> FALSE, function |-> 0, block |-> "Program"]>>

current(ctx) == ctx[Len(ctx)]
\* a variant that hands the closed context's bindings to its parent
parentLeaking(ctx) ==
    IF Len(ctx) <= 1 THEN <<>>
    ELSE [SubSeq(ctx, 1, Len(ctx) - 1) EXCEPT
             ![Len(ctx) - 1].locals =
                 [n \in DOMAIN @ |-> IF ctx[Len(ctx)].locals[n] # 0
                                     THEN ctx[Len(ctx)].locals[n] ELSE @[n]]]

parent(ctx) == SubSeq(ctx, 1, Len(ctx) - 1)

\* Context.add: locals.set(name, entity) on the current context
add(ctx, name, ref) == [ctx EXCEPT ![Len(ctx)].locals[name] = ref]

\* a variant that asks the parent first
RECURSIVE lookupOutermost(_, _)
lookupOutermost(ctx, name) ==
    IF ctx = <<>> THEN 0
    ELSE IF lookupOutermost(parent(ctx), name) # 0
         THEN lookupOutermost(parent(ctx), name)
    ELSE current(ctx).locals[name]

\* Context.lookup: locals.get(name) || parent?.lookup(name)
RECURSIVE lookup(_, _)
lookup(ctx, name) ==
    IF ctx = <<>> THEN 0
    ELSE IF current(ctx).locals[name] # 0 THEN current(ctx).locals[name]
    ELSE lookup(parent(ctx), name)

\* Context.newChildContext(props): the parent's fields, props over them, and
\* fresh locals
newChildContext(ctx, inLoop, function, block) ==
    Append(ctx, [locals |-> NoLocals, inLoop |-> inLoop, function |-> function,
                 block |-> block])

\* one entry of the trace: what a handler looked up, what it found on the
\* chain and in the current context, and the entity it bound or returned
Event(op, name, found, here, ent) ==
    [op |-> op, name |-> name, found |-> found, here |-> here, entity |-> ent]

\* The handlers run on an analysis state st = [context, entities, outcome,
\* trace]; once a check has thrown, the steps after it do nothing.
Throwing(st) == st.outcome # "analyzing"

must(st, condition, message) ==
    IF Throwing(st) \/ condition THEN st ELSE [st EXCEPT !.outcome = message]

\* a variant that records the check and never throws
mustNotAlreadyBeDeclaredLax(st, name) ==
    IF Throwing(st) THEN st
    ELSE LET found == lookup(st.context, name)
             here == current(st.context).locals[name]
         IN [st EXCEPT !.trace = Append(@, Event("declare", name, found, here, 0))]

\* a variant that consults the current context alone
mustNotAlreadyBeDeclaredHere(st, name) ==
    IF Throwing(st) THEN st
    ELSE LET found == lookup(st.context, name)
             here == current(st.context).locals[name]
         IN must([st EXCEPT !.trace = Append(@, Event("declare", name, found, here, 0))],
                 here = 0, "already declared")

mustNotAlreadyBeDeclared(st, name) ==
    IF Throwing(st) THEN st
    ELSE LET found == lookup(st.context, name)
             here == current(st.context).locals[name]
         IN must([st EXCEPT !.trace = Append(@, Event("declare", name, found, here, 0))],
                 found = 0, "already declared")

mustHaveBeenFound(st, ent, name) == must(st, ent # 0, "not declared")

\* an id in an expression; self is an id like any other outside a class
Primary_id(st, name) ==
    IF Throwing(st) THEN st
    ELSE LET ent == lookup(st.context, name)
             here == current(st.context).locals[name]
         IN mustHaveBeenFound(
                [st EXCEPT !.trace = Append(@, Event("use", name, ent, here, ent))],
                ent, name)

\* An expression is the numeral "1" or an id.
Numerals == {"1"}
Exps == Numerals \cup Names

\* numeral: Number(this.sourceString)
numeral(st, exp) ==
    IF Throwing(st) THEN st
    ELSE [st EXCEPT !.trace = Append(@, Event("numeral", exp, 0, 0, 0))]

\* exp.rep()
Exp(st, exp) == IF exp \in Numerals THEN numeral(st, exp) ELSE Primary_id(st, exp)

\* the type property of what exp.rep() returned (Number.prototype.type for a
\* numeral)
typeOf(st, exp) ==
    IF exp \in Numerals THEN floatType
    ELSE IF lookup(st.context, exp) = 0 THEN voidType
    ELSE st.entities[lookup(st.context, exp)].type

mustHaveNumericType(st, type) ==
    must(st, type \in {intType, floatType}, "Expected a number")

mustHaveIterableType(st, type) ==
    must(st, type.kind \in {"ArrayType", "DictType"}, "Expected an array or dict")

\* equivalent, on the types met here: one basic type, or two array or two
\* function types of equivalent parts
\* a variant that does not compare the numbers of parameters
RECURSIVE equivalentAnyCount(_, _)
equivalentAnyCount(t1, t2) ==
    \/ t1 = t2
    \/ /\ t1.kind = "OptionalType"
       /\ t2.kind = "OptionalType"
       /\ equivalentAnyCount(t1.baseType, t2.baseType)
    \/ /\ t1.kind = "ArrayType"
       /\ t2.kind = "ArrayType"
       /\ equivalentAnyCount(t1.baseType, t2.baseType)
    \/ /\ t1.kind = "FunctionType"
       /\ t2.kind = "FunctionType"
       /\ equivalentAnyCount(t1.returnType, t2.returnType)
       /\ \A i \in DOMAIN t1.paramTypes :
             /\ i \in DOMAIN t2.paramTypes
             /\ equivalentAnyCount(t1.paramTypes[i], t2.paramTypes[i])

\* t1 === t2 compares basic types by value and type objects by identity: a
\* type object that carries an id is equal only to itself
RECURSIVE equivalent(_, _)
equivalent(t1, t2) ==
    \/ t1 = t2
    \/ /\ t1.kind = "OptionalType"
       /\ t2.kind = "OptionalType"
       /\ equivalent(t1.baseType, t2.baseType)
    \/ /\ t1.kind = "ArrayType"
       /\ t2.kind = "ArrayType"
       /\ equivalent(t1.baseType, t2.baseType)
    \/ /\ t1.kind = "FunctionType"
       /\ t2.kind = "FunctionType"
       /\ equivalent(t1.returnType, t2.returnType)
       /\ Len(t1.paramTypes) = Len(t2.paramTypes)
       /\ \A i \in DOMAIN t1.paramTypes : equivalent(t1.paramTypes[i], t2.paramTypes[i])

\* a variant that is covariant in the parameter types too
RECURSIVE assignableCovariant(_, _)
assignableCovariant(fromType, toType) ==
    \/ toType = anyType
    \/ equivalent(fromType, toType)
    \/ /\ fromType.kind = "FunctionType"
       /\ toType.kind = "FunctionType"
       /\ assignableCovariant(fromType.returnType, toType.returnType)
       /\ Len(fromType.paramTypes) = Len(toType.paramTypes)
       /\ \A i \in DOMAIN toType.paramTypes :
             assignableCovariant(fromType.paramTypes[i], toType.paramTypes[i])

RECURSIVE assignable(_, _)
assignable(fromType, toType) ==
    \/ toType = anyType
    \/ equivalent(fromType, toType)
    \/ /\ fromType.kind = "FunctionType"
       /\ toType.kind = "FunctionType"
       /\ assignable(fromType.returnType, toType.returnType)
       /\ Len(fromType.paramTypes) = Len(toType.paramTypes)
       /\ \A i \in DOMAIN toType.paramTypes :
             assignable(toType.paramTypes[i], fromType.paramTypes[i])

mustBeAssignable(st, fromType, toType) ==
    must(st, assignable(fromType, toType), "Cannot assign")

\* the entity object is created and context.add binds the name to it
bind(st, name, ent) ==
    IF Throwing(st) THEN st
    ELSE LET ref == Len(st.entities) + 1
             found == lookup(st.context, name)
             here == current(st.context).locals[name]
         IN [st EXCEPT !.entities = Append(@, ent),
                       !.context = add(@, name, ref),
                       !.trace = Append(@, Event("add", name, found, here, ref))]

\* context = context.newChildContext(props)
open(st, inLoop, function, block) ==
    IF Throwing(st) THEN st
    ELSE [st EXCEPT !.context = newChildContext(@, inLoop, function, block),
                    !.trace = Append(@, Event("open", block, 0, 0, 0))]

\* a variant that looks for a loop anywhere on the chain
mustBeInLoopAnywhere(st) ==
    must(st, \E k \in DOMAIN st.context : st.context[k].inLoop,
         "Break can only appear in a loop")

mustBeInLoop(st) ==
    must(st, current(st.context).inLoop, "Break can only appear in a loop")

\* a variant that wants the return in the function's own Block
mustBeInAFunctionBody(st) ==
    must(st, current(st.context).block = "function",
         "Return can only appear in a function")

mustBeInAFunction(st) ==
    must(st, current(st.context).function # 0, "Return can only appear in a function")

\* f.type.returnType === core.voidType, f the context's function
mustNotReturnAnything(st) ==
    must(st, /\ current(st.context).function # 0
             /\ st.entities[current(st.context).function].type.returnType = voidType,
         "Something should be returned")

ParamItem(st, id) ==
    bind(mustNotAlreadyBeDeclared(st, id), id, entity("Variable", id, intType))

\* params.rep(): the items left to right
RECURSIVE Params(_, _)
Params(st, params) ==
    IF params = <<>> THEN st
    ELSE Params(ParamItem(st, Head(params)), Tail(params))

\* how deep the blocks of the analyzed program nest: programs of declarations
\* and references are shallow, programs of return and break statements deep
DepthBound == IF pc = "control" THEN MaxNesting ELSE MaxDepth

\* how many entities the analyzed program declares: a foreach declares up to
\* MaxIds iterators at once
MaxIds == 3
EntityBound == IF pc = "foreach" THEN MaxEntities + MaxIds ELSE MaxEntities

\* the analysis state a handler starts from
Start ==
    [context |-> context, entities |-> entities, outcome |-> outcome, trace |-> <<>>]

\* the state a handler leaves; the model stops growing at its bounds.  A throw
\* leaves analyze: its context and the objects it had built are gone, the
\* error and what the throwing handler did remain.
Handled(st) ==
    /\ outcome = "analyzing"
    /\ Len(st.context) <= DepthBound + 1
    /\ Len(st.entities) <= EntityBound + Len(standardLibrary)
    /\ context' = IF Throwing(st) THEN <<>> ELSE st.context
    /\ entities' = IF Throwing(st) THEN <<>> ELSE st.entities
    /\ outcome' = st.outcome
    /\ trace' = st.trace
    /\ UNCHANGED <<pc, node, result, second, env>>

\* Type id "=" Exp; the variable gets the declared type
VarDecl(type, id, exp) ==
    LET checked == mustNotAlreadyBeDeclared(Start, id)
        initialized == Exp(checked, exp)
        rechecked == mustNotAlreadyBeDeclared(initialized, id)
    IN Handled(bind(rechecked, id, entity("Variable", id, type)))

\* id "=" CollectionLit; the literal is an array of numerals
Statement_collection(id, type) ==
    LET checked == mustNotAlreadyBeDeclared(Start, id)
    IN Handled(bind(checked, id, entity("Variable", id, type)))

\* id "(" Params ")" and the opening of the body's Block
Statement_function(id, params) ==
    LET checked == mustNotAlreadyBeDeclared(Start, id)
        type == functionType([i \in DOMAIN params |-> intType], voidType)
        declared == bind(checked, id, entity("Function", id, type))
        child == open(declared, FALSE, Len(declared.entities), "function")
    IN Handled(Params(child, params))

Statement_simplefunction(id) ==
    LET checked == mustNotAlreadyBeDeclared(Start, id)
        declared == bind(checked, id,
                         entity("Function", id, functionType(<<>>, voidType)))
    IN Handled(open(declared, FALSE, Len(declared.entities), "function"))

\* id "in" Exp ("..." | "..<") Exp and the opening of the body's Block
Statement_forloop(id, exp1, exp2) ==
    LET low == Exp(Start, exp1)
        high == Exp(low, exp2)
        numeric == mustHaveNumericType(mustHaveNumericType(high, typeOf(high, exp1)),
                                       typeOf(high, exp2))
        child == open(numeric, TRUE, current(context).function, "loop")
    IN Handled(bind(child, id, entity("Variable", id, intType)))

\* an id "in" Primary and the opening of the body's Block; the collection
\* is named by an id, and an iterator is core.variable(id, false, baseType)
\* over an array: core.variable(id, false, baseType) for every id, and
\* core.variable takes (name, type), so the type is false
RECURSIVE ArrayIterators(_, _)
ArrayIterators(st, idList) ==
    IF idList = <<>> THEN st
    ELSE ArrayIterators(bind(st, Head(idList),
                             entity("Variable", Head(idList), [kind |-> "false"])),
                        Tail(idList))

\* context.add(iterator.name, iterator); the name of idList[i] past the end
\* of idList is undefined, a key no id in the source resolves to
addIterator(st, idList, i, type) ==
    IF i <= Len(idList) THEN bind(st, idList[i], entity("Variable", idList[i], type))
    ELSE IF Throwing(st) THEN st
    ELSE [st EXCEPT !.entities = Append(@, entity("Variable", "undefined", type))]

\* over a dict: idList[0] with the key type and idList[1] with the value type
DictIterators(st, idList, type) ==
    addIterator(addIterator(st, idList, 1, type.keyType), idList, 2, type.valueType)

Statement_foreach(ids, exp) ==
    LET collection == Primary_id([Start EXCEPT
                                     !.trace = <<Event("foreach", exp, Len(ids), 0, 0)>>],
                                 exp)
        type == typeOf(collection, exp)
        iterable == mustHaveIterableType(collection, type)
        child == open(iterable, TRUE, current(context).function, "loop")
    IN Handled(IF Throwing(iterable) THEN iterable
               ELSE IF type.kind = "ArrayType" THEN ArrayIterators(child, ids)
               ELSE DictIterators(child, ids, type))

\* the test of a while, an if and an else-if is a boolean literal
Statement_while ==
    Handled(open(Start, TRUE, current(context).function, "loop"))

Statement_if ==
    Handled(open(Start, current(context).inLoop, current(context).function, "if"))

\* the Block closed last belongs to the if statement being analyzed
AfterIf ==
    /\ Len(trace) = 1
    /\ trace[1].op = "close"
    /\ trace[1].name = "if"

ElseIfPart ==
    /\ AfterIf
    /\ Handled(open(Start, current(context).inLoop, current(context).function,
                    "if"))

ElsePart ==
    /\ AfterIf
    /\ Handled(open(Start, current(context).inLoop, current(context).function,
                    "block"))

\* the last handler opened a Block, which holds no statement yet
Opened == \E i \in DOMAIN trace : trace[i].op = "open"

\* the end of a Block (":" Statement+ ";"): context = context.parent
BlockEnd ==
    /\ Len(context) > 1
    /\ ~Opened
    /\ Handled([Start EXCEPT
                   !.context = parent(context),
                   !.trace = <<Event("close", current(context).block, 0, 0, 0)>>])

\* print of one expression
Statement_print(exp) == Handled(Exp(Start, exp))

\* Primary "=" Exp: the source first, then the target
Statement_assign(target, exp) ==
    LET source == Exp([Start EXCEPT !.trace = <<Event("assign", target, 0, 0, 0)>>], exp)
        targetVar == Primary_id(source, target)
    IN Handled(mustBeAssignable(targetVar, typeOf(targetVar, exp),
                                typeOf(targetVar, target)))

\* DottedId "+=" Exp
Statement_addassign(target, exp) ==
    LET source == Exp([Start EXCEPT !.trace = <<Event("addassign", target, 0, 0, 0)>>], exp)
        targetVar == Primary_id(source, target)
    IN Handled(mustBeAssignable(targetVar, typeOf(targetVar, exp),
                                typeOf(targetVar, target)))

\* e.type?.kind === "FunctionType"; no struct type can be declared
mustBeCallable(st, type) ==
    must(st, type.kind = "FunctionType", "Call of non-function or non-constructor")

\* a variant that lets a call pass fewer arguments than there are parameters
mustHaveAtMostArgumentCount(st, argCount, paramCount) ==
    must(st, argCount <= paramCount,
         ToString(paramCount) \o " argument(s) required but "
             \o ToString(argCount) \o " passed")

mustHaveCorrectArgumentCount(st, argCount, paramCount) ==
    must(st, argCount = paramCount,
         ToString(paramCount) \o " argument(s) required but "
             \o ToString(argCount) \o " passed")

\* exps.map(exp => exp.rep()): the arguments left to right
RECURSIVE Args(_, _)
Args(st, exps) ==
    IF exps = <<>> THEN st ELSE Args(Exp(st, Head(exps)), Tail(exps))

\* Primary "(" ListOf<Exp, ","> ")": the callee is analyzed and must be
\* callable, the arguments are counted, then analyzed
Primary_call(st, exp, exps) ==
    LET callee == Exp([st EXCEPT !.trace = Append(@, Event("call", exp, Len(exps), 0, 0))],
                      exp)
        callable == mustBeCallable(callee, typeOf(callee, exp))
        params == IF Throwing(callable) THEN <<>> ELSE typeOf(callee, exp).paramTypes
        counted == mustHaveCorrectArgumentCount(callable, Len(exps), Len(params))
    IN Args(counted, exps)

Statement_call(exp, exps) == Handled(Primary_call(Start, exp, exps))

\* the expression of a return statement: none, or an Exp
NoExp == ""
ReturnExps == {NoExp} \cup Exps

\* the return statement: with an expression the expression is analyzed and
\* returned as it is; without one the function must return nothing
Statement_return(exp) ==
    LET started == [Start EXCEPT !.trace = <<Event("return", exp, 0, 0, 0)>>]
        inside == mustBeInAFunction(started)
    IN Handled(IF exp # NoExp THEN Exp(inside, exp) ELSE mustNotReturnAnything(inside))

Statement_break ==
    Handled(mustBeInLoop([Start EXCEPT !.trace = <<Event("break", "", 0, 0, 0)>>]))

\* Program (Statement+): every statement was analyzed, one at least, and the
\* program node is returned
AnalyzeProgram ==
    /\ outcome = "analyzing"
    /\ Len(context) = 1
    /\ trace # <<>>
    /\ outcome' = "returned"
    /\ trace' = <<>>
    /\ UNCHANGED <<pc, node, result, second, env, context, entities>>

ParamLists == UNION {[1..m -> UserNames] : m \in 1..MaxParams}

NextAnalyzer ==
    \/ \E id \in Names, exp \in Exps : VarDecl(intType, id, exp)
    \/ \E id \in UserNames : Statement_collection(id, arrayType(floatType))
    \/ \E id \in UserNames, params \in ParamLists : Statement_function(id, params)
    \/ \E id \in UserNames : Statement_simplefunction(id)
    \/ \E id \in Names, exp1 \in Numerals, exp2 \in Exps : Statement_forloop(id, exp1, exp2)
    \/ \E id \in Names, exp \in Names : Statement_foreach(<<id>>, exp)
    \/ Statement_while
    \/ Statement_if
    \/ ElseIfPart
    \/ ElsePart
    \/ BlockEnd
    \/ \E exp \in Exps : Statement_print(exp)
    \/ \E target \in Names, exp \in Numerals : Statement_assign(target, exp)
    \/ AnalyzeProgram

InitAnalyzer ==
    /\ pc = "idle"
    /\ node = Null
    /\ result = Null
    /\ second = Null
    /\ env = <<>>
    /\ context = root
    /\ entities = standardLibrary
    /\ outcome = "analyzing"
    /\ trace = <<>>

SpecAnalyzer == InitAnalyzer /\ [][NextAnalyzer]_vars

\* Programs of functions, loops, ifs, returns and breaks.
NextControl ==
    \/ \E id \in UserNames, params \in ParamLists : Statement_function(id, params)
    \/ \E id \in UserNames : Statement_simplefunction(id)
    \/ \E id \in UserNames, exp1 \in Numerals, exp2 \in Numerals :
          Statement_forloop(id, exp1, exp2)
    \/ Statement_while
    \/ Statement_if
    \/ ElseIfPart
    \/ ElsePart
    \/ BlockEnd
    \/ \E exp \in ReturnExps : Statement_return(exp)
    \/ Statement_break
    \/ AnalyzeProgram

InitControl ==
    /\ pc = "control"
    /\ node = Null
    /\ result = Null
    /\ second = Null
    /\ env = <<>>
    /\ context = root
    /\ entities = standardLibrary
    /\ outcome = "analyzing"
    /\ trace = <<>>

SpecControl == InitControl /\ [][NextControl]_vars

dictType(keyType, valueType) ==
    [kind |-> "DictType", keyType |-> keyType, valueType |-> valueType]

\* Programs of collections and foreach loops over them.
CollectionTypes == {arrayType(floatType), dictType(floatType, floatType)}

NextForeach ==
    \/ \E id \in UserNames, type \in CollectionTypes : Statement_collection(id, type)
    \/ \E ids \in SeqsUpTo(UserNames, MaxIds), exp \in Names : Statement_foreach(ids, exp)
    \/ \E exp \in Exps : Statement_print(exp)
    \/ BlockEnd
    \/ AnalyzeProgram

InitForeach ==
    /\ pc = "foreach"
    /\ node = Null
    /\ result = Null
    /\ second = Null
    /\ env = <<>>
    /\ context = root
    /\ entities = standardLibrary
    /\ outcome = "analyzing"
    /\ trace = <<>>

SpecForeach == InitForeach /\ [][NextForeach]_vars

\* Types: the basic types, an array type, the types of functions over basic
\* types, and the types of functions that take or return such functions.
MaxArgs == 2
FunctionTypes(paramTypes, returnTypes) ==
    {functionType(p, r) : p \in SeqsUpTo(paramTypes, MaxParams), r \in returnTypes}
FirstOrder == FunctionTypes({intType, anyType}, {voidType, intType})
HigherOrder ==
    FunctionTypes(FirstOrder \cup {intType}, {voidType})
        \cup FunctionTypes({intType}, FirstOrder)
Types ==
    {intType, stringType, voidType, anyType, arrayType(intType)}
        \cup FirstOrder \cup HigherOrder

\* assignable(fromType, toType) of two types
Assignable ==
    /\ pc = "types"
    /\ pc' = "assigned"
    /\ result' = assignable(node, second)
    /\ UNCHANGED <<node, second, env, context, entities, outcome, trace>>

\* Type objects with their identity: the same structure built twice gives
\* two objects.  Basic types are strings and have no identity.
optionalType(baseType) == [kind |-> "OptionalType", baseType |-> baseType]
Object(type, id) == type @@ [id |-> id]
BasicTypes == {intType, stringType, voidType}
TypeObjects(m) ==
    LET inner == {intType, stringType, Object(arrayType(intType), 1)}
        built == {arrayType(b) : b \in inner}
                     \cup {optionalType(b) : b \in inner}
                     \cup {functionType(p, r) : p \in SeqsUpTo(inner, m),
                                                r \in {voidType, intType}}
                     \cup {dictType(stringType, intType)}
    IN BasicTypes \cup {Object(t, id) : t \in built, id \in {2, 3}}

\* equivalent(t1, t2) and equivalent(t2, t1) of two types
Equivalent ==
    /\ pc = "pair"
    /\ pc' = "compared"
    /\ result' = [forward |-> equivalent(node, second),
                  backward |-> equivalent(second, node)]
    /\ UNCHANGED <<node, second, env, context, entities, outcome, trace>>

InitEquivalent ==
    /\ pc = "pair"
    /\ node \in TypeObjects(MaxParams)
    /\ second \in TypeObjects(MaxParams)
    /\ result = Null
    /\ env = <<>>
    /\ AnalyzerIdle

SpecEquivalent == InitEquivalent /\ [][Equivalent]_vars

\* Programs of typed declarations, functions, assignments and calls.
DeclTypes == {intType, stringType, anyType}
ArgExps == Numerals \cup {"x", "print"}

NextTyping ==
    \/ Assignable
    \/ \E type \in DeclTypes, id \in UserNames, exp \in Exps : VarDecl(type, id, exp)
    \/ \E id \in UserNames, params \in ParamLists : Statement_function(id, params)
    \/ \E id \in UserNames : Statement_simplefunction(id)
    \/ BlockEnd
    \/ \E target \in Names, exp \in Exps : Statement_assign(target, exp)
    \/ \E target \in Names, exp \in Exps : Statement_addassign(target, exp)
    \/ \E exp \in Exps, exps \in SeqsUpTo(ArgExps, MaxArgs) : Statement_call(exp, exps)
    \/ AnalyzeProgram

\* either two types to compare, or a program to analyze
InitTyping ==
    /\ result = Null
    /\ env = <<>>
    /\ \/ /\ pc = "types"
          /\ node \in Types
          /\ second \in Types
          /\ AnalyzerIdle
       \/ /\ pc = "typing"
          /\ node = Null
          /\ second = Null
          /\ context = root
          /\ entities = standardLibrary
          /\ outcome = "analyzing"
          /\ trace = <<>>

SpecTyping == InitTyping /\ [][NextTyping]_vars

----------------------------------------------------------------------------
(* The generator: generate(program) walks the program; statements push lines *)
(* to output, expressions return text, and targetName keeps nameMap.  The    *)
(* generation state g holds output, nameMap (name -> number), the names      *)
(* targetName was asked for, in order, with the text it returned (emitted),  *)
(* and the error thrown, if any.                                             *)

\* what a template literal makes of a value: a primitive as its text, an
\* object as "[object Object]"
String(v) ==
    CASE v.kind = "Number" -> ToString(v.n)
      [] v.kind = "Boolean" -> (IF v.b THEN "true" ELSE "false")
      [] v.kind = "String" -> v.s
      [] v.kind = "null" -> "null"
      [] OTHER -> "[object Object]"

\* if (value): null, 0, "" and false are falsy, every object is truthy
Truthy(v) ==
    CASE v.kind = "Number" -> v.n # 0
      [] v.kind = "Boolean" -> v.b
      [] v.kind = "String" -> v.s # ""
      [] v.kind = "null" -> FALSE
      [] OTHER -> TRUE

\* a variant that numbers every request, not every name
targetNamePerUse(g, ent) ==
    LET k == Len(g.emitted) + 1
        text == ent.name \o "_" \o ToString(k)
    IN [g |-> [g EXCEPT !.nameMap = (ent.name :> k) @@ @,
                        !.emitted = Append(@, [name |-> ent.name, target |-> text])],
        text |-> text]

targetName(g, ent) ==
    LET map == IF ent.name \in DOMAIN g.nameMap THEN g.nameMap
               ELSE g.nameMap @@ (ent.name :> Cardinality(DOMAIN g.nameMap) + 1)
        text == ent.name \o "_" \o ToString(map[ent.name])
    IN [g |-> [g EXCEPT !.nameMap = map,
                        !.emitted = Append(@, [name |-> ent.name, target |-> text])],
        text |-> text]

push(g, line) == [g EXCEPT !.output = Append(@, line)]

\* `${gen(n)}` for an expression: the text, and the state gen leaves
RECURSIVE genExp(_, _)
genExp(g, n) ==
    CASE n.kind \in {"Variable", "Function", "Parameter"} -> targetName(g, n)
      [] n.kind = "BinaryExpression" ->
           LET left == genExp(g, n.left)
               right == genExp(left.g, n.right)
               op == IF n.op = "==" THEN "===" ELSE IF n.op = "!=" THEN "!==" ELSE n.op
           IN [g |-> right.g,
               text |-> "(" \o left.text \o " " \o op \o " " \o right.text \o ")"]
      [] n.kind = "UnaryExpression" ->
           LET x == genExp(g, n.operand)
           IN [g |-> IF n.op = "print" THEN push(x.g, "console.log(" \o x.text \o ");")
                     ELSE x.g,
               text |-> "(" \o n.op \o x.text \o ")"]
      [] n.kind = "IntegerLiteral" -> [g |-> g, text |-> String(n.value)]
      [] n.kind = "StringLiteral" -> [g |-> g, text |-> "\"" \o n.value.s \o "\""]
      [] n.kind = "BooleanLiteral" -> [g |-> g, text |-> String(n.value)]
      [] OTHER -> [g |-> g, text |-> String(n)]

\* nodes.map(gen).join(", ")
RECURSIVE genJoin(_, _)
genJoin(g, nodes) ==
    IF nodes = <<>> THEN [g |-> g, text |-> ""]
    ELSE LET first == genExp(g, Head(nodes))
             rest == genJoin(first.g, Tail(nodes))
         IN [g |-> rest.g,
             text |-> IF Tail(nodes) = <<>> THEN first.text
                      ELSE first.text \o ", " \o rest.text]

\* a variant of the IfStatement generator that braces every alternate
RECURSIVE gen(_, _)
RECURSIVE forEachGen(_, _)
IfStatementBraced(g, s) ==
    LET test == genExp(g, s.test)
        consequent == forEachGen(push(test.g, "if (" \o test.text \o ") {"), s.consequent)
        opened == push(consequent, "} else {")
    IN IF s.alternate.kind = "IfStatement" THEN push(gen(opened, s.alternate), "}")
       ELSE IF s.alternate.kind = "Array"
            THEN push(forEachGen(opened, s.alternate.elements), "}")
       ELSE [opened EXCEPT !.error = "TypeError"]

\* generators.ForRangeStatement
GenForRangeStatement(g, s) ==
    LET i == targetName(g, s.iterator)
        op == IF s.op = "..." THEN "<=" ELSE "<"
        low == genExp(i.g, s.low)
        high == genExp(low.g, s.high)
        head == push(high.g, "for (let " \o i.text \o " = " \o low.text \o "; " \o i.text
                             \o " " \o op \o " " \o high.text \o "; " \o i.text \o "++) {")
    IN push(forEachGen(head, s.body), "}")

\* a variant that leaves the loop open
ForStatementUnclosed(g, s) ==
    LET iterator == genExp(g, s.iterator)
        collection == genExp(iterator.g, s.collection)
        head == push(collection.g, "for (let " \o iterator.text \o " of "
                                   \o collection.text \o ") {")
    IN forEachGen(head, s.body)

\* generators.ForStatement
GenForStatement(g, s) ==
    LET iterator == genExp(g, s.iterator)
        collection == genExp(iterator.g, s.collection)
        head == push(collection.g, "for (let " \o iterator.text \o " of "
                                   \o collection.text \o ") {")
    IN push(forEachGen(head, s.body), "}")

\* generators.IfStatement; the alternate is an IfStatement, an Array, or
\* null, and null.forEach throws
GenIfStatement(g, s) ==
    LET test == genExp(g, s.test)
        consequent == forEachGen(push(test.g, "if (" \o test.text \o ") {"), s.consequent)
    IN IF s.alternate.kind = "IfStatement"
       THEN gen(push(consequent, "} else"), s.alternate)
       ELSE LET opened == push(consequent, "} else {")
            IN IF s.alternate.kind = "Array"
               THEN push(forEachGen(opened, s.alternate.elements), "}")
               ELSE [opened EXCEPT !.error = "TypeError"]

\* gen(n) for a statement
gen(g, n) ==
    IF g.error # "" THEN g
    ELSE CASE n.kind = "Program" -> forEachGen(g, n.statements)
           [] n.kind = "VariableDeclaration" ->
                LET v == genExp(g, n.variable)
                IN push(v.g, "let " \o v.text \o " = " \o String(n.initializer) \o ";")
           [] n.kind = "FunctionDeclaration" ->
                LET functionName == genExp(g, n.fun)
                    params == genJoin(functionName.g, n.fun.params)
                    head == push(params.g, "function " \o functionName.text
                                               \o "(" \o params.text \o ") {")
                IN push(forEachGen(head, n.fun.body), "}")
           [] n.kind = "Increment" ->
                LET v == genExp(g, n.variable) IN push(v.g, v.text \o "++;")
           [] n.kind = "Decrement" ->
                LET v == genExp(g, n.variable) IN push(v.g, v.text \o "--;")
           [] n.kind = "BreakStatement" -> push(g, "break;")
           [] n.kind = "ReturnStatement" ->
                IF Truthy(n.expression)
                THEN LET e == genExp(g, n.expression)
                     IN push(e.g, "return " \o e.text \o ";")
                ELSE push(g, "return;")
           [] n.kind = "Print" ->
                LET e == genJoin(g, n.expressions)
                IN push(e.g, "console.log(" \o e.text \o ");")
           [] n.kind = "IfStatement" -> GenIfStatement(g, n)
           [] n.kind = "ForRangeStatement" -> GenForRangeStatement(g, n)
           [] n.kind = "ForStatement" -> GenForStatement(g, n)
           [] OTHER -> genExp(g, n).g

\* nodes.forEach(gen)
forEachGen(g, nodes) ==
    IF nodes = <<>> THEN g ELSE forEachGen(gen(g, Head(nodes)), Tail(nodes))

\* output.join("\n")
RECURSIVE join(_)
join(lines) ==
    IF lines = <<>> THEN ""
    ELSE IF Tail(lines) = <<>> THEN Head(lines)
    ELSE Head(lines) \o "\n" \o join(Tail(lines))

\* generate(program): what gen left, and the text returned
generate(p) ==
    LET g == gen([output |-> <<>>, nameMap |-> <<>>, emitted |-> <<>>, error |-> ""], p)
    IN [output |-> g.output, nameMap |-> g.nameMap, emitted |-> g.emitted,
        error |-> g.error, text |-> IF g.error = "" THEN join(g.output) ELSE ""]

\* Programs to generate: up to MaxPrelude statements that mention names, then
\* one declaration, print or if statement.
MaxPrelude == 2
MaxChain == 2

function(name, ref, params, body) ==
    [kind |-> "Function", name |-> name, ref |-> ref, params |-> params, body |-> body]

GenVariables == {variable("x", 1), variable("x", 2), variable("y", 1)}
Initializers ==
    {Num(1), [kind |-> "IntegerLiteral", value |-> Num(1)]}
        \cup GenVariables \cup {binary("+", variable("x", 1), Num(1))}
Preludes(k) ==
    SeqsUpTo({increment(variable("x", 1)), increment(variable("y", 1)),
              print(<<variable("x", 2)>>)}, k)
GenTests == {Bool(TRUE), variable("x", 1)}
Alternates == {Arr(<<>>), Arr(<<print(<<variable("x", 2)>>)>>), Null}

\* an if statement followed by n else-if clauses and the last alternate
RECURSIVE IfChains(_)
IfChains(n) ==
    IF n = 0
    THEN {ifStatement(t, <<print(<<variable("y", 1)>>)>>, a) : t \in GenTests, a \in Alternates}
    ELSE {ifStatement(t, <<print(<<variable("y", 1)>>)>>, a) :
              t \in GenTests, a \in IfChains(n - 1)}

GenStatements(n, m) ==
    {variableDeclaration(v, i) : v \in GenVariables, i \in Initializers}
        \cup {print(<<e>>) : e \in GenVariables}
        \cup UNION {IfChains(c) : c \in 0..n}
        \cup {functionDeclaration(function(f, 3, params, body)) :
                 f \in {"x", "y"}, params \in SeqsUpTo({variable("x", 1), variable("y", 1)}, m),
                 body \in {<<>>, <<returnStatement(variable("x", 2))>>}}

GenPrograms(k, n, m) ==
    {program(prelude \o <<main>>) : prelude \in Preludes(k), main \in GenStatements(n, m)}

Generate ==
    /\ pc = "program"
    /\ pc' = "generated"
    /\ result' = generate(node)
    /\ UNCHANGED <<node, second, env, context, entities, outcome, trace>>

InitGen ==
    /\ pc = "program"
    /\ node \in GenPrograms(MaxPrelude, MaxChain, MaxParams)
    /\ result = Null
    /\ second = Null
    /\ env = <<>>
    /\ AnalyzerIdle

SpecGen == InitGen /\ [][Generate]_vars

----------------------------------------------------------------------------
(* The node Statement_if returns.  The parts of the statement are given as   *)
(* analyzed: the test (of boolean type) and the Block's statements of the    *)
(* if and of every else-if, and the Block of the else part, if there is one. *)

\* what ElseIfPart returns: an object with a test and a consequent, no kind
ElseIfPartNode(test, consequent) ==
    [kind |-> "undefined", test |-> test, consequent |-> consequent]

\* what ElsePart returns: the statements of its Block
ElsePartNode(block) == Arr(block)

\* the rep() of an iteration node (ElseIfPart*, ElsePart?): the list of what
\* its children return
iter(children) == Arr(children)

\* array.reduceRight(callback) with no initial value: the last element is
\* the first accumulator, the callback is applied from the one before it on
RECURSIVE reduceRight(_)
reduceRight(elseIfs) ==
    IF Len(elseIfs) = 1 THEN elseIfs[1]
    ELSE LET acc == reduceRight(Tail(elseIfs))
             curr == Head(elseIfs)
         IN ifStatement(curr.test, curr.consequent, acc)

Statement_ifNode(test, consequent, elseIfs, elsePart) ==
    LET alternate ==
            IF Len(elseIfs) > 0 THEN reduceRight(elseIfs)
            ELSE IF Len(elsePart) > 0 THEN iter(elsePart)
            ELSE Null
    IN ifStatement(test, consequent, alternate)

BooleanTests == {binary("<", variable("x", 1), Num(1)), binary("<", variable("x", 1), Num(2))}
Blocks == {<<breakStatement>>, <<print(<<Num(1)>>), breakStatement>>}

\* an if statement: test, Block, up to n else-if parts, an else part or none
IfParts(n) ==
    [test : BooleanTests, consequent : Blocks,
     elseIfs : SeqsUpTo({ElseIfPartNode(t, b) : t \in BooleanTests, b \in Blocks}, n),
     elsePart : {<<>>} \cup {<<ElsePartNode(b)>> : b \in Blocks}]

AnalyzeIf ==
    /\ pc = "if"
    /\ pc' = "analyzed"
    /\ result' = Statement_ifNode(node.test, node.consequent, node.elseIfs, node.elsePart)
    /\ UNCHANGED <<node, second, env, context, entities, outcome, trace>>

InitIf ==
    /\ pc = "if"
    /\ node \in IfParts(MaxChain)
    /\ result = Null
    /\ second = Null
    /\ env = <<>>
    /\ AnalyzerIdle

SpecIf == InitIf /\ [][AnalyzeIf]_vars

----------------------------------------------------------------------------
(* C8: a second declaration in one scope                                     *)

\* the throw of the last check a handler made
Rejected(i, message) == outcome = message /\ i = Len(trace)

\* C8: declaring a name that is already bound in the same scope throws
\* "already declared", and analysis returns no IR: the handler stops at the
\* check and no handler runs after it.
C8_Redeclared ==
    \A i \in DOMAIN trace :
        (trace[i].op = "declare" /\ trace[i].here # 0)
            => /\ Rejected(i, "already declared")
               /\ ~ENABLED NextAnalyzer

\* x was declared in the root context and declared there again
C8_Witness ==
    /\ outcome = "already declared"
    /\ Len(trace) = 1
    /\ trace[1].op = "declare"
    /\ trace[1].name = "x"
    /\ trace[1].here # 0
    /\ trace[1].here = trace[1].found

----------------------------------------------------------------------------
(* C9: a declaration of a name bound in an enclosing scope                   *)

\* C9 as stated: a declaration is rejected only when the name is bound in the
\* current scope; where it is bound in an enclosing scope only, the
\* declaration succeeds.
C9_OnlyCurrentScope ==
    \A i \in DOMAIN trace :
        (trace[i].op = "declare" /\ trace[i].here = 0)
            => ~Rejected(i, "already declared")

\* C9, amended: a declaration is rejected exactly when the name is bound
\* anywhere on the scope chain: in the current scope, in an enclosing scope,
\* or among the standard library's names in the root.
C9_WholeChain ==
    \A i \in DOMAIN trace :
        trace[i].op = "declare"
            => (Rejected(i, "already declared") <=> trace[i].found # 0)

\* a declaration in an inner scope of a name bound in an enclosing scope only
\* was rejected
C9_Witness ==
    /\ outcome = "already declared"
    /\ trace # <<>>
    /\ trace[Len(trace)].op = "declare"
    /\ trace[Len(trace)].name = "x"
    /\ trace[Len(trace)].here = 0
    /\ trace[Len(trace)].found # 0

----------------------------------------------------------------------------
(* C10: references                                                           *)

\* the entity of the innermost context that binds the name, 0 for none
Innermost(ctx, name) ==
    LET binding == {k \in DOMAIN ctx : ctx[k].locals[name] # 0}
    IN IF binding = {} THEN 0
       ELSE ctx[CHOOSE k \in binding : \A j \in binding : j <= k].locals[name]

\* C10: a reference (in an expression, as an assignment target, as a loop
\* collection) to a name bound nowhere on the scope chain throws "not
\* declared"; otherwise it resolves to the entity of the innermost binding,
\* the object that was bound, at every use site.  Every reference of a
\* handler is resolved in the context the handler started in.
C10_Resolved ==
    [][\A i \in DOMAIN trace' :
          trace'[i].op = "use"
              => IF Innermost(context, trace'[i].name) = 0
                 THEN outcome' = "not declared" /\ i = Len(trace')
                 ELSE /\ trace'[i].entity = Innermost(context, trace'[i].name)
                      /\ entities[trace'[i].entity].name = trace'[i].name
                      /\ ~(outcome' = "not declared" /\ i = Len(trace'))]_vars

\* inside a loop whose iterator x hides the x of the root context, a
\* reference to x resolved to the iterator
C10_Witness ==
    /\ outcome = "analyzing"
    /\ Len(context) = 2
    /\ context[1].locals["x"] # 0
    /\ context[2].locals["x"] # 0
    /\ context[2].locals["x"] # context[1].locals["x"]
    /\ Len(trace) = 1
    /\ trace[1].op = "use"
    /\ trace[1].name = "x"
    /\ trace[1].entity = context[2].locals["x"]

----------------------------------------------------------------------------
(* C11: where a return may stand                                             *)

\* some Block around the statement is the body of a function
InsideFunction(ctx) == \E k \in DOMAIN ctx : ctx[k].block = "function"

Returning == trace' # <<>> /\ trace'[1].op = "return"

----------------------------------------------------------------------------
(* C12: where a break may stand                                              *)

\* the innermost Block around the statement that is a function body or a loop
\* body is a loop body
LoopEncloses(ctx) ==
    LET marks == {k \in DOMAIN ctx : ctx[k].block \in {"function", "loop"}}
    IN /\ marks # {}
       /\ ctx[CHOOSE k \in marks : \A j \in marks : j <= k].block = "loop"

Breaking == trace' # <<>> /\ trace'[1].op = "break"

----------------------------------------------------------------------------
(* C13: what a return may carry                                              *)

\* C13: inside a function whose return type is Void a return with an
\* expression is rejected; inside a function whose return type is not Void a
\* return without an expression is rejected with "Something should be
\* returned".
C13_ReturnMatchesType ==
    [][Returning /\ InsideFunction(context) =>
         LET returnType == entities[current(context).function].type.returnType
         IN IF trace'[1].name # NoExp
            THEN returnType = voidType => outcome' # "analyzing"
            ELSE returnType # voidType => outcome' = "Something should be returned"]_vars

----------------------------------------------------------------------------
(* C14: assignability                                                        *)

\* S is assignable to T as the rule is stated: T is Any, or the two types are
\* the same type, or both are function types with as many parameters, the
\* return type of S assignable to that of T and each parameter type of T
\* assignable to the parameter type of S at its place
RECURSIVE AssignableTo(_, _)
AssignableTo(S, T) ==
    \/ T = anyType
    \/ S = T
    \/ /\ S.kind = "FunctionType"
       /\ T.kind = "FunctionType"
       /\ Len(S.paramTypes) = Len(T.paramTypes)
       /\ AssignableTo(S.returnType, T.returnType)
       /\ \A i \in 1..Len(T.paramTypes) : AssignableTo(T.paramTypes[i], S.paramTypes[i])

Assigning == trace' # <<>> /\ trace'[1].op \in {"assign", "addassign"}

Declared(exp) == exp \in Numerals \/ lookup(context, exp) # 0

----------------------------------------------------------------------------
(* C15: the initializer of a typed declaration                               *)

\* the last handler was VarDecl and it bound the variable
Declaring ==
    /\ Len(trace') = 4
    /\ trace'[1].op = "declare"
    /\ trace'[2].op \in {"numeral", "use"}
    /\ trace'[4].op = "add"

\* C15: a variable declaration with a declared type and an initializer is
\* accepted only if the type of the initializer is compatible with the
\* declared type; a declaration of type string initialized with a number is
\* rejected.
C15_InitializerCompatible ==
    [][Declaring /\ outcome' = "analyzing" =>
         assignable(typeOf(Start, trace'[2].name), entities'[trace'[4].entity].type)]_vars

----------------------------------------------------------------------------
(* C16: the number of arguments of a call                                    *)

Calling == trace' # <<>> /\ trace'[1].op = "call"

\* an argument that names nothing declared ended the analysis
UndeclaredArgument ==
    /\ outcome' = "not declared"
    /\ Len(trace') > 2
    /\ trace'[Len(trace')].op = "use"
    /\ trace'[Len(trace')].found = 0

\* C16: a call of a function with well-formed arguments is accepted exactly
\* when the number of arguments equals the number of the callee's parameters,
\* whatever the types of the arguments; with any other number of arguments
\* the analysis throws "<required> argument(s) required but <passed> passed".
C16_ArgumentCount ==
    [][Calling /\ Declared(trace'[1].name)
              /\ typeOf(Start, trace'[1].name).kind = "FunctionType" =>
         LET required == Len(typeOf(Start, trace'[1].name).paramTypes)
             passed == trace'[1].found
         IN IF passed = required
            THEN outcome' = "analyzing" \/ UndeclaredArgument
            ELSE outcome' = ToString(required) \o " argument(s) required but "
                                \o ToString(passed) \o " passed"]_vars

\* a function that takes an int was called with the function print
C16_Witness ==
    /\ outcome = "analyzing"
    /\ Len(trace) = 3
    /\ trace[1].op = "call"
    /\ trace[3].name = "print"
    /\ entities[trace[2].entity].type = functionType(<<intType>>, voidType)

----------------------------------------------------------------------------
(* C17: the names generate emits                                             *)

\* the number of distinct names targetName was asked for up to request i
Rank(emitted, i) ==
    LET first == CHOOSE j \in 1..i :
                    /\ emitted[j].name = emitted[i].name
                    /\ \A h \in 1..(j - 1) : emitted[h].name # emitted[i].name
    IN Cardinality({emitted[h].name : h \in 1..first})

\* C17: within one generate call every entity is emitted as <name>_<k>, k
\* depending only on the name: the first distinct name gets 1, the next
\* distinct name 2, and so on without gaps; every later occurrence of a name,
\* also of another entity of that name, gets the same k, and two names never
\* share a k.
C17_NameMangling ==
    pc = "generated" =>
        /\ \A i \in DOMAIN result.emitted :
              result.emitted[i].target =
                  result.emitted[i].name \o "_" \o ToString(Rank(result.emitted, i))
        /\ \A i, j \in DOMAIN result.emitted :
              (result.emitted[i].name = result.emitted[j].name)
                  <=> (result.emitted[i].target = result.emitted[j].target)
        /\ {result.nameMap[n] : n \in DOMAIN result.nameMap}
               = 1..Cardinality(DOMAIN result.nameMap)

\* a function y with a parameter y after a statement on x: the parameter,
\* another entity than the function, shares the function's name and number
C17_Witness ==
    /\ pc = "generated"
    /\ result.output = <<"x_1++;", "function y_2(y_2) {", "}">>

----------------------------------------------------------------------------
(* C18: the lines of an if statement                                         *)

\* the if statements of a chain whose alternate is an if statement, and those
\* whose alternate is a list
RECURSIVE IfAlternates(_)
IfAlternates(s) ==
    IF s.alternate.kind = "IfStatement" THEN 1 + IfAlternates(s.alternate) ELSE 0

RECURSIVE LastAlternate(_)
LastAlternate(s) ==
    IF s.alternate.kind = "IfStatement" THEN LastAlternate(s.alternate) ELSE s.alternate

Lines(output, line) == {i \in DOMAIN output : output[i] = line}

\* the first line of a generated if statement
IfLine(line) ==
    \E t \in {"true"} \cup {result.emitted[i].target : i \in DOMAIN result.emitted} :
        line = "if (" \o t \o ") {"

\* C18: for an if statement whose alternate is an if statement, generate emits
\* the line "} else" immediately followed by the "if (<test>) {" line of the
\* nested if, with no "} else {" between them; for one whose alternate is a
\* list it emits "} else {", the lines of the alternate, and a closing "}".
\* This holds at every depth of an else-if chain.
C18_ElseIfLines ==
    LET main == node.statements[Len(node.statements)]
        output == result.output
        alternate == LastAlternate(main).elements
    IN pc = "generated" /\ main.kind = "IfStatement" /\ result.error = "" =>
         /\ \A i \in Lines(output, "} else") : i < Len(output) /\ IfLine(output[i + 1])
         /\ Cardinality(Lines(output, "} else")) = IfAlternates(main)
         /\ Lines(output, "} else {") = {Len(output) - Len(alternate) - 1}
         /\ \A i \in 1..Len(alternate) :
               \E e \in DOMAIN result.emitted :
                  output[Len(output) - Len(alternate) - 1 + i]
                      = "console.log(" \o result.emitted[e].target \o ");"
         /\ output[Len(output)] = "}"
         /\ Cardinality(Lines(output, "}")) = 1

\* an if with two else-if clauses and an else-block
C18_Witness ==
    /\ pc = "generated"
    /\ result.output = <<"if (true) {", "console.log(y_1);", "} else",
                         "if (true) {", "console.log(y_1);", "} else",
                         "if (x_2) {", "console.log(y_1);", "} else {",
                         "console.log(x_2);", "}">>

----------------------------------------------------------------------------
(* C19: the line of a variable declaration                                   *)

\* C19: for a VariableDeclaration generate emits exactly one line
\* "let <mangled variable name> = <initializer text>;", the initializer text
\* being what the expression generator returns for the initializer: a literal
\* as its text, a Variable as its mangled name, a BinaryExpression as its
\* parenthesized text.
C19_DeclarationLine ==
    LET main == node.statements[Len(node.statements)]
        named == [output |-> <<>>, nameMap |-> result.nameMap, emitted |-> <<>>,
                  error |-> ""]
    IN pc = "generated" /\ main.kind = "VariableDeclaration" =>
         /\ Len(result.output) = Len(node.statements)
         /\ result.output[Len(result.output)]
               = "let " \o genExp(named, main.variable).text
                     \o " = " \o genExp(named, main.initializer).text \o ";"

----------------------------------------------------------------------------
(* C20: the chain of else-if clauses                                         *)

\* s is the if statement of the first of the else-if clauses, its alternate
\* the chain of the others, and the last alternate the else-block or null
RECURSIVE Chained(_, _, _)
Chained(s, elseIfs, elsePart) ==
    /\ s.kind = "IfStatement"
    /\ s.test = Head(elseIfs).test
    /\ s.consequent = Head(elseIfs).consequent
    /\ IF Len(elseIfs) = 1
       THEN s.alternate = (IF elsePart = <<>> THEN Null ELSE elsePart[1])
       ELSE Chained(s.alternate, Tail(elseIfs), elsePart)

\* C20: for an if statement with n >= 1 else-if clauses the analyzer returns
\* an IfStatement whose alternate is a chain of n nested IfStatement nodes in
\* source order, each with its own test and consequent, the last one's
\* alternate being the statements of the else-block when there is one and
\* null otherwise; the else-block is never dropped.
C20_ElseIfChain ==
    pc = "analyzed" /\ Len(node.elseIfs) >= 1 =>
        /\ result.kind = "IfStatement"
        /\ result.test = node.test
        /\ result.consequent = node.consequent
        /\ Chained(result.alternate, node.elseIfs, node.elsePart)

----------------------------------------------------------------------------
(* C21: type equivalence                                                     *)

\* two types have the same structure, whatever objects they are: basic types
\* are the same type, array and optional types have base types of the same
\* structure, function types have return types and, one by one, parameter
\* types of the same structure
RECURSIVE SameStructure(_, _)
SameStructure(t1, t2) ==
    IF t1.kind \in {"ArrayType", "OptionalType"}
    THEN t2.kind = t1.kind /\ SameStructure(t1.baseType, t2.baseType)
    ELSE IF t1.kind = "FunctionType"
    THEN /\ t2.kind = "FunctionType"
         /\ SameStructure(t1.returnType, t2.returnType)
         /\ Len(t1.paramTypes) = Len(t2.paramTypes)
         /\ \A i \in 1..Len(t1.paramTypes) : SameStructure(t1.paramTypes[i], t2.paramTypes[i])
    ELSE t1 = t2

----------------------------------------------------------------------------
(* C22: the iterator names of a foreach                                      *)

Looping == trace' # <<>> /\ trace'[1].op = "foreach"

\* C22: a foreach is accepted only when the number of iterator names matches
\* the collection: one name for an array, two names for a dict; with any
\* other number of names the analysis throws.
C22_IteratorCount ==
    [][Looping /\ outcome' = "analyzing" =>
         trace'[1].found =
             (IF typeOf(Start, trace'[1].name).kind = "ArrayType" THEN 1 ELSE 2)]_vars

----------------------------------------------------------------------------
(* C23: the types of the analyzed entities                                   *)

TypeVariants ==
    {"boolean", "int", "string", "void", "any", "ArrayType", "DictType", "FunctionType",
     "OptionalType", "StructType"}

\* C23: every Variable entity of a successfully analyzed program, the
\* iterators of a foreach included, carries a type that is one of the Type
\* variants; the iterator of a foreach over an array carries the array's
\* element type.
C23_TypedEntities ==
    outcome = "returned" =>
        \A i \in DOMAIN entities :
            entities[i].kind = "Variable" => entities[i].type.kind \in TypeVariants

----------------------------------------------------------------------------
(* C24: the empty range                                                      *)

\* the bounds of a range: literals of both numeric kinds, a variable, a sum
RangeBounds(k) ==
    {Num(i) : i \in 0..k} \cup {Big(i) : i \in 0..k}
    \cup {varY, binary("+", Num(1), Num(1)), binary("+", Big(1), Big(1))}

InitRange ==
    /\ pc = "start"
    /\ node \in {forRangeStatement(varX, l, op, h, b) :
                    l \in RangeBounds(MaxLit), op \in {"...", "..<"},
                    h \in RangeBounds(MaxLit), b \in ShortBodies}
    /\ result = Null
    /\ second = Null
    /\ env = <<>>
    /\ AnalyzerIdle

SpecRange == InitRange /\ [][NextOptimizer]_vars

NumericConstant(e) == e.kind \in {"Number", "BigInt"}

\* low > high as the host compares two numeric constants of either kind
Above(low, high) ==
    NumLt([kind |-> "Number", n |-> high.n, d |-> IF high.kind = "BigInt" THEN 1 ELSE high.d],
          [kind |-> "Number", n |-> low.n, d |-> IF low.kind = "BigInt" THEN 1 ELSE low.d])

\* C24: optimizing a ForRangeStatement returns the empty list whenever both
\* bounds optimize to numeric constants, ordinary or wide-integer, with
\* low > high; in every other case it returns the same node with its bounds
\* and body optimized.
C24_EmptyRange ==
    pc = "optimized" /\ node.kind = "ForRangeStatement" =>
        LET low == optimize(node.low)
            high == optimize(node.high)
        IN IF NumericConstant(low) /\ NumericConstant(high) /\ Above(low, high)
           THEN result = Arr(<<>>)
           ELSE result = [node EXCEPT !.low = low, !.high = high,
                                      !.body = flatMapOptimize(node.body).elements]

----------------------------------------------------------------------------
(* C25: the identities of zero and one                                       *)

\* operands that are no constant, before and after optimizing
NonConstants ==
    {varX, binary("+", varX, Num(0)), binary("<", varX, Num(1)), unary("-", varX)}

\* the numeric constants of both kinds
Constants(k) == {Num(i) : i \in 0..k} \cup {Big(i) : i \in 0..k}

InitIdentity ==
    /\ pc = "start"
    /\ \E op \in IROps, c \in Constants(MaxLit), x \in NonConstants :
          node \in {binary(op, c, x), binary(op, x, c)}
    /\ result = Null
    /\ second = Null
    /\ env = <<>>
    /\ AnalyzerIdle

SpecIdentity == InitIdentity /\ [][NextOptimizer]_vars

Zero(c) == c \in {Num(0), Big(0)}
One(c) == c \in {Num(1), Big(1)}

\* C25: with x no constant, 0+x, x+0, x-0, 1*x, x*1 and x/1 are rewritten to
\* x; 0*x, x*0 and 0/x to the zero literal; 1**x to the one literal; x**0 to
\* 1; 0-x to UnaryExpression('-', x), for 0 and 1 as for 0n and 1n; every
\* other BinaryExpression with exactly one numeric constant operand is
\* returned as the node, its operands optimized.
C25_Identities ==
    pc = "optimized" /\ node.kind = "BinaryExpression"
    /\ IsNumeric(node.left) # IsNumeric(node.right) =>
        LET op == node.op
            constantLeft == IsNumeric(node.left)
            c == IF constantLeft THEN node.left ELSE node.right
            x == optimize(IF constantLeft THEN node.right ELSE node.left)
        IN result =
             CASE Zero(c) /\ op = "+" -> x
               [] Zero(c) /\ op = "-" /\ ~constantLeft -> x
               [] One(c) /\ op = "*" -> x
               [] One(c) /\ op = "/" /\ ~constantLeft -> x
               [] Zero(c) /\ op = "*" -> c
               [] Zero(c) /\ op = "/" /\ constantLeft -> c
               [] One(c) /\ op = "**" /\ constantLeft -> c
               [] Zero(c) /\ op = "**" /\ ~constantLeft -> Num(1)
               [] Zero(c) /\ op = "-" /\ constantLeft -> unary("-", x)
               [] OTHER -> IF constantLeft THEN binary(op, c, x) ELSE binary(op, x, c)

\* the wide-integer zero minus an operand became the negated, optimized operand
C25_Witness ==
    /\ pc = "optimized"
    /\ node = binary("-", Big(0), binary("+", varX, Num(0)))
    /\ result = unary("-", varX)

----------------------------------------------------------------------------
(* C26: flat statement lists, in order                                       *)

\* statements no rule rewrites
PlainStatements == {increment(varX), decrement(varY), assignment(varX, varY)}

FlatTests == {Bool(TRUE), Bool(FALSE), varX}

\* an if with a list or an if as alternate
NestedIfs(k) ==
    {ifStatement(t, c, a) :
        t \in FlatTests, c \in SeqsUpTo(PlainStatements, k),
        a \in {Arr(<<>>), Arr(<<increment(varX)>>)}
              \cup {ifStatement(u, <<decrement(varY)>>, Arr(<<assignment(varX, varY)>>)) :
                       u \in FlatTests}}

\* an if between two statements, alone, or inside the branch of another if
StatementLists(k) ==
    {<<increment(varX), i, decrement(varY)>> : i \in NestedIfs(k)}
    \cup {<<i>> : i \in NestedIfs(k)}
    \cup {<<ifStatement(t, <<assignment(varX, varY), i>>, Arr(<<i>>))>> :
             t \in FlatTests, i \in NestedIfs(1)}

\* the nodes that hold a statement list
Containers(k) ==
    {program(l) : l \in StatementLists(k)}
    \cup {functionDeclaration(fun("f", 4, l)) : l \in StatementLists(k)}
    \cup {whileStatement(varX, l) : l \in StatementLists(k)}
    \cup {forRangeStatement(varX, Num(1), "...", varY, l) : l \in StatementLists(k)}
    \cup {forStatement(varX, varY, l) : l \in StatementLists(k)}

InitFlatten ==
    /\ pc = "start"
    /\ node \in Containers(MaxLen)
    /\ result = Null
    /\ second = Null
    /\ env = <<>>
    /\ AnalyzerIdle

SpecFlatten == InitFlatten /\ [][NextOptimizer]_vars

\* no list holds a list, at any depth
RECURSIVE FlatBodies(_)
FlatList(l) == \A i \in 1..Len(l) : l[i].kind # "Array" /\ FlatBodies(l[i])

FlatBodies(n) ==
    CASE n.kind = "Program" -> FlatList(n.statements)
      [] n.kind = "FunctionDeclaration" -> FlatList(n.fun.body)
      [] n.kind \in {"WhileStatement", "ForRangeStatement", "ForStatement"} ->
            FlatList(n.body)
      [] n.kind = "IfStatement" ->
            /\ FlatList(n.consequent)
            /\ IF n.alternate.kind = "Array" THEN FlatList(n.alternate.elements)
               ELSE FlatBodies(n.alternate)
      [] OTHER -> TRUE

\* the statements of list l that survive, in the order of l: an if with a
\* constant test gives way, where it stands, to the survivors of its branch
RECURSIVE Surviving(_)
Surviving(l) ==
    IF l = <<>> THEN <<>>
    ELSE LET s == Head(l)
             branch == IF s.alternate.kind = "Array" THEN s.alternate.elements
                       ELSE <<s.alternate>>
             alternate ==
                 IF s.alternate.kind = "Array" \/ s.alternate.test.kind = "Boolean"
                 THEN Arr(Surviving(branch))
                 ELSE Surviving(branch)[1]
         IN (CASE s.kind = "IfStatement" /\ IsTrue(s.test) -> Surviving(s.consequent)
               [] s.kind = "IfStatement" /\ IsFalse(s.test) -> Surviving(branch)
               [] s.kind = "IfStatement" /\ s.test.kind # "Boolean" ->
                     <<[s EXCEPT !.consequent = Surviving(s.consequent),
                                 !.alternate = alternate]>>
               [] OTHER -> <<s>>)
            \o Surviving(Tail(l))

StatementsOf(n) ==
    CASE n.kind = "Program" -> n.statements
      [] n.kind = "FunctionDeclaration" -> n.fun.body
      [] OTHER -> n.body

\* C26: after optimize, the statement list of a Program, and of every
\* function, loop and if body, holds statement nodes only, no list; the
\* surviving statements stand in the order of the input, the statements of a
\* collapsed if at the position the if had.
C26_FlatInOrder ==
    pc = "optimized" =>
        /\ result.kind = node.kind
        /\ FlatBodies(result)
        /\ StatementsOf(result) = Surviving(StatementsOf(node))

\* an if with a true test between two statements gave way to its two statements
C26_Witness ==
    /\ pc = "optimized"
    /\ node = program(<<increment(varX),
                        ifStatement(Bool(TRUE), <<decrement(varY), assignment(varX, varY)>>,
                                    Arr(<<>>)),
                        decrement(varY)>>)
    /\ result.statements = <<increment(varX), decrement(varY), assignment(varX, varY),
                             decrement(varY)>>

----------------------------------------------------------------------------
(* C27: scopes are closed again                                              *)

\* the last handler closed a Block
Closing == trace' # <<>> /\ trace'[1].op = "close"

\* the names bound in the innermost context only
BoundInside(ctx) ==
    {n \in Names : /\ ctx[Len(ctx)].locals[n] # 0
                   /\ \A k \in 1..(Len(ctx) - 1) : ctx[k].locals[n] = 0}

\* C27: a successfully analyzed statement leaves the current scope as it
\* was: no handler touches a context below the current one, so that the
\* scope a body returns to is the scope the statement started in; every
\* child scope opened for a function body, loop body, if consequent, else-if
\* branch or else block is closed by returning to exactly its parent, and a
\* name declared inside such a body resolves to nothing after the body.
C27_ScopesClose ==
    [][outcome = "analyzing" /\ outcome' = "analyzing" =>
          /\ \A k \in 1..(Len(context) - 1) :
                k <= Len(context') /\ context'[k] = context[k]
          /\ Len(context') <= Len(context) + 1
          /\ Closing =>
                /\ context' = SubSeq(context, 1, Len(context) - 1)
                /\ \A n \in BoundInside(context) : Innermost(context', n) = 0]_vars

\* the body of a loop was closed at the root; its iterator x, an entity of
\* the program, is bound nowhere any more
C27_Witness ==
    /\ outcome = "analyzing"
    /\ Len(trace) = 1
    /\ trace[1].op = "close"
    /\ trace[1].name = "loop"
    /\ Len(context) = 1
    /\ context[1].locals["x"] = 0
    /\ \E i \in DOMAIN entities : entities[i].kind = "Variable" /\ entities[i].name = "x"

----------------------------------------------------------------------------
(* C28: from the analyzer through the optimizer to the generator             *)

\* optimize(analyze(match)) for a program of the one if statement
OptimizeAnalyzed ==
    /\ pc = "analyzed"
    /\ pc' = "optimized"
    /\ second' = optimize(program(<<result>>))
    /\ UNCHANGED <<node, result, env, context, entities, outcome, trace>>

\* generate(optimize(analyze(match))): reached when optimize returned
GenerateOptimized ==
    /\ pc = "optimized"
    /\ ~Thrown(second)
    /\ pc' = "generated"
    /\ env' = generate(second)
    /\ UNCHANGED <<node, result, second, context, entities, outcome, trace>>

NextPipeline == AnalyzeIf \/ OptimizeAnalyzed \/ GenerateOptimized

SpecPipeline == InitIf /\ [][NextPipeline]_vars

\* C28: the IR the analyzer returns for an accepted program, an if statement
\* without else-block included, passes through optimize and then through
\* generate, and neither throws.
C28_PipelineRuns ==
    /\ pc = "optimized" => ~Thrown(second)
    /\ pc = "generated" => env.error = ""

----------------------------------------------------------------------------
(* C29: every statement leaves a line                                        *)

\* one statement of every variant of the IR, over the variable v
StatementVariants(v) ==
    {variableDeclaration(v, Num(1)),
     functionDeclaration(function("f", 3, <<>>, <<returnStatement(v)>>)),
     assignment(v, Num(1)), addAssignment(v, Num(1)), increment(v), decrement(v),
     ifStatement(v, <<increment(v)>>, Arr(<<>>)),
     whileStatement(v, <<increment(v)>>),
     forRangeStatement(v, Num(1), "...", Num(2), <<>>),
     forStatement(v, variable("y", 1), <<>>),
     returnStatement(v), returnStatement(Null), breakStatement, print(<<v>>),
     functionCall(function("f", 3, <<>>, <<>>), <<v>>)}

InitStatements ==
    /\ pc = "program"
    /\ \E prelude \in Preludes(MaxPrelude), v \in GenVariables :
          node \in {program(Append(prelude, s)) : s \in StatementVariants(v)}
    /\ result = Null
    /\ second = Null
    /\ env = <<>>
    /\ AnalyzerIdle

SpecStatements == InitStatements /\ [][Generate]_vars

\* the lines generate leaves for the statements before the last
LinesBefore(p) ==
    Len(generate(program(SubSeq(p.statements, 1, Len(p.statements) - 1))).output)

\* C29: generating a Program appends, for its last statement, whatever
\* variant of the IR it is, at least one line to the output: no statement is
\* dropped without output.
C29_EveryStatementEmits ==
    pc = "generated" /\ result.error = "" => Len(result.output) > LinesBefore(node)

----------------------------------------------------------------------------
(* C30: balanced braces                                                      *)

\* the statements that open a block, with empty bodies
BlockStatements ==
    {ifStatement(variable("x", 1), <<>>, Arr(<<>>)),
     forRangeStatement(variable("x", 1), Num(1), "..<", variable("y", 1), <<>>),
     forStatement(variable("x", 1), variable("y", 1), <<>>),
     functionDeclaration(function("f", 3, <<variable("x", 1)>>, <<>>))}

BlockBodies == {<<>>} \cup {<<s>> : s \in BlockStatements}

\* an if statement followed by n else-if clauses and an else block
RECURSIVE BraceChains(_)
BraceChains(n) ==
    IF n = 0
    THEN {ifStatement(variable("x", 1), c, Arr(a)) : c \in BlockBodies, a \in BlockBodies}
    ELSE {ifStatement(variable("y", 1), c, a) : c \in BlockBodies, a \in BraceChains(n - 1)}

\* block statements that hold block statements
NestedBlocks(n) ==
    UNION {BraceChains(c) : c \in 0..n}
    \cup {forRangeStatement(variable("x", 1), Num(1), "...", Num(2), b) : b \in BlockBodies}
    \cup {forStatement(variable("x", 1), variable("y", 1), b) : b \in BlockBodies}
    \cup {functionDeclaration(function("f", 3, <<>>, b)) : b \in BlockBodies}

InitBraces ==
    /\ pc = "program"
    /\ \E first \in BlockBodies, main \in NestedBlocks(MaxChain) :
          node = program(first \o <<main>>)
    /\ result = Null
    /\ second = Null
    /\ env = <<>>
    /\ AnalyzerIdle

SpecBraces == InitBraces /\ [][Generate]_vars

\* how often the character c stands in the text s
Count(s, c) == Cardinality({i \in 1..Len(s) : SubSeq(s, i, i) = c})

\* how often the character c stands in the first k lines
RECURSIVE Braces(_, _, _)
Braces(lines, k, c) ==
    IF k = 0 THEN 0 ELSE Braces(lines, k - 1, c) + Count(lines[k], c)

\* C30: for a Program of FunctionDeclaration, IfStatement (list or
\* IfStatement alternates, chains of any depth), ForRangeStatement and
\* ForStatement nodes, the generated text holds as many '}' as '{', and in
\* no prefix of its lines are there more '}' than '{'.
C30_BalancedBraces ==
    pc = "generated" =>
        /\ result.error = ""
        /\ Count(result.text, "}") = Count(result.text, "{")
        /\ \A k \in 0..Len(result.output) :
              Braces(result.output, k, "}") <= Braces(result.output, k, "{")

\* an if, an else-if holding a for loop, and an else block
C30_Witness ==
    /\ pc = "generated"
    /\ result.output = <<"if (y_1) {", "} else", "if (x_2) {",
                         "for (let x_2 of y_1) {", "}", "} else {", "}">>

====
